---- MODULE Spec2Model ----
(***************************************************************************)
(* pahcer: the parallel test-execution engine.                             *)
(*                                                                         *)
(* runner::run validates the settings, builds one TestCase per seed,       *)
(* MultiCaseRunner::start_tests hands every case to a thread pool whose    *)
(* workers run SingleCaseRunner::run and send the TestResult on an mpsc    *)
(* channel, and MultiCaseRunner::collect_results drains the channel on the *)
(* main thread, prints each record, sorts the results by seed and builds   *)
(* TestStats.                                                              *)
(*                                                                         *)
(* f64 quantities are kept in thousandths (Milli).  The score and          *)
(* reference domains below are chosen so that every quotient, product and  *)
(* log10 the code computes on them is exact in f64 and in thousandths.     *)
(***************************************************************************)
EXTENDS Integers, Sequences, FiniteSets, TLC

VARIABLES
    pc,            \* position of the main thread in runner::run / collect_results
    settings,      \* the loaded Settings (seed range, threads, objective, regex)
    args,          \* RunArgs: shuffle, no_compile, freeze_best_scores, no_result_file
    best_scores,   \* seed -> reference score, 0 for "no entry"
    solver,        \* the environment: what the test steps of each seed produce
    cpus,          \* num_cpus::get()
    test_cases,    \* MultiCaseRunner.test_cases
    submitted,     \* number of cases start_tests has handed to the pool
    queue,         \* the thread pool's job queue (each job owns a case and a tx clone)
    running,       \* the cases the pool's threads are running (one per busy thread)
    tx_count,      \* live Sender handles of the result channel
    channel,       \* results sent and not yet received
    cur,           \* the result the for-loop body of collect_results is handling
    results,       \* the results vector of collect_results
    printer,       \* ResultPrinter / ConsolePrinter fields
    stats,         \* <<>> until TestStats::new has run, then <<TestStats>>
    send_order,    \* history: seeds in the order their results were sent
    on_case_log,   \* history: seeds in the order on_case was entered
    on_case_done,  \* history: number of on_case invocations that returned
    summary_log,   \* history: for each on_summary call, what it was given
    compile_steps, \* settings.test.compile_steps, each with what its command does
    compile_log,   \* history: the compile steps whose command was run, in order
    out_dir,       \* the files runner::run writes under settings.test.out_dir
    test_steps,    \* SingleCaseRunner.steps, each with what its command does
    step_pc,       \* position of one SingleCaseRunner::run inside run_steps
    outputs,       \* the outputs vector of run_steps
    execution_time, \* the execution_time accumulator of run_steps
    files,         \* the output files the steps have written: path -> content
    trace,         \* history: file writes and status checks of the steps, in order
    case_result,   \* <<>> until SingleCaseRunner::run has returned, then <<TestResult>>
    call,          \* the function a unit test calls, with its arguments
    ret,           \* <<>> until the call has returned, then <<value>>
    writer,        \* the lines a unit test's printer has written to its writer
    git_pc,        \* position of git::commit
    repo           \* the git repository: HEAD, the index, the work tree, the tags

vars == << pc, settings, args, best_scores, solver, cpus, test_cases, submitted,
           queue, running, tx_count, channel, cur, results, printer, stats,
           send_order, on_case_log, on_case_done, summary_log,
           compile_steps, compile_log, out_dir,
           test_steps, step_pc, outputs, execution_time, files, trace, case_result,
           call, ret, writer, git_pc, repo >>

run_vars == << compile_steps, compile_log, out_dir >>
single_vars == << test_steps, step_pc, outputs, execution_time, files, trace, case_result >>
git_vars == << git_pc, repo >>
unit_vars == << call, ret, writer, git_vars >>
\* What the actions of the engine (start_tests, collect_results) leave alone
outside == << run_vars, single_vars, unit_vars >>

----------------------------------------------------------------------------
(* Bounds of the model *)

MaxCases == 3
MaxThreads == 2

(* Fixed-point unit of the f64 quantities *)
Milli == 1000

\* The seed ranges [start_seed, end_seed) lie within AllSeeds; the last seed is
\* one that has no stored best score
AllSeeds == 0 .. MaxCases
StartSeeds == {0, 1}
SeedsOf(s) == s.start_seed .. (s.end_seed - 1)

(* Option<NonZeroU64>: 0 is None *)
None == 0

Objectives == {"Max", "Min"}

----------------------------------------------------------------------------
(* Sequence helpers *)

RECURSIVE SumSeq(_)
SumSeq(s) == IF s = <<>> THEN 0 ELSE Head(s) + SumSeq(Tail(s))

Last(s) == s[Len(s)]

Max2(a, b) == IF a >= b THEN a ELSE b

Perms(n) ==
    { p \in [1..n -> 1..n] : \A i, j \in 1..n : i # j => p[i] # p[j] }

----------------------------------------------------------------------------
(* single.rs: TestCase, TestResult, SingleCaseRunner *)

TestCaseNew(seed, reference_score, objective) ==
    [seed |-> seed, reference_score |-> reference_score, objective |-> objective]

\* a as f64 / b as f64, in thousandths
FDiv(a, b) == (a * Milli) \div b

calc_relative_score_Inverted(tc, new_score) ==
    IF tc.reference_score = None THEN 100 * Milli
    ELSE IF tc.objective = "Min"
         THEN FDiv(new_score, tc.reference_score) * 100
         ELSE FDiv(tc.reference_score, new_score) * 100

calc_relative_score(tc, new_score) ==
    IF tc.reference_score = None THEN 100 * Milli
    ELSE IF tc.objective = "Max"
         THEN FDiv(new_score, tc.reference_score) * 100
         ELSE FDiv(tc.reference_score, new_score) * 100

is_best_MaxOnly(tc, new_score) ==
    IF new_score = None THEN FALSE
    ELSE IF tc.reference_score = None THEN TRUE
    ELSE new_score >= tc.reference_score

is_best_Strict(tc, new_score) ==
    IF new_score = None THEN FALSE
    ELSE IF tc.reference_score = None THEN TRUE
    ELSE IF tc.objective = "Max" THEN new_score > tc.reference_score
    ELSE new_score < tc.reference_score

is_best(tc, new_score) ==
    IF new_score = None THEN FALSE
    ELSE IF tc.reference_score = None THEN TRUE
    ELSE IF tc.objective = "Max" THEN new_score >= tc.reference_score
    ELSE new_score <= tc.reference_score

\* Result<NonZeroU64, String>
Ok(v) == [ok |-> TRUE, v |-> v, e |-> ""]
Err(e) == [ok |-> FALSE, v |-> 0, e |-> e]

TestResultNew(tc, score, time) ==
    [ test_case |-> tc,
      score |-> score,
      relative_score |-> IF score.ok THEN Ok(calc_relative_score(tc, score.v))
                         ELSE Err(score.e),
      execution_time |-> time ]

\* (s.get() as f64).log10() in thousandths; exact on powers of ten
RECURSIVE Log10Floor(_)
Log10Floor(n) == IF n < 10 THEN 0 ELSE 1 + Log10Floor(n \div 10)
score_log10(r) == Log10Floor(r.score.v) * Milli

\* A match of the score pattern: its `score` group is present or not, and its
\* text parses as f64 (value in thousandths) or not
Cap(m) == [named |-> TRUE, parses |-> TRUE, milli |-> m]
BadCap == [named |-> TRUE, parses |-> FALSE, milli |-> 0]
NoGroupCap == [named |-> FALSE, parses |-> FALSE, milli |-> 0]

\* Option<f64>
SomeF(m) == [some |-> TRUE, milli |-> m]
NoneF == [some |-> FALSE, milli |-> 0]

\* m.name("score").and_then(|s| s.as_str().parse().ok())
Parses(c) == c.named /\ c.parses
\* captures_iter(..).filter_map(parse).last() of one buffer
LastParsed(buf) ==
    LET ps == SelectSeq(buf, Parses)
    IN  IF ps = <<>> THEN NoneF ELSE SomeF(Last(ps).milli)

IsSome(o) == o.some

extract_score_LastBuffer(bufs) ==
    IF bufs = <<>> THEN NoneF ELSE LastParsed(bufs[Len(bufs)])

\* outputs.iter().filter_map(per buffer).last()
extract_score(bufs) ==
    LET per == SelectSeq([i \in 1..Len(bufs) |-> LastParsed(bufs[i])], IsSome)
    IN  IF per = <<>> THEN NoneF ELSE Last(per)

\* `score as u64`: truncates toward zero, saturates below at 0
AsU64(m) == IF m <= 0 THEN 0 ELSE m \div Milli

\* What run_steps returns for a seed: Err(e), or Ok((outputs, execution_time))
StepsOk(bufs, t) == [ok |-> TRUE, e |-> "", outputs |-> bufs, time |-> t]
StepsErr(e) == [ok |-> FALSE, e |-> e, outputs |-> <<>>, time |-> 0]

\* The match on the extracted score: NonZeroU64::new(score as u64)
Classify(score) ==
    IF score.some
    THEN IF AsU64(score.milli) # 0 THEN Ok(AsU64(score.milli))
         ELSE Err("Wrong Answer")
    ELSE Err("Score not found")

SingleRun(tc, steps) ==
    IF steps.ok
    THEN TestResultNew(tc, Classify(extract_score(steps.outputs)), steps.time)
    ELSE TestResultNew(tc, Err(steps.e), 0)

----------------------------------------------------------------------------
(* single.rs: replace_placeholder, on strings as sequences of characters *)

DigitChars == << "0", "1", "2", "3", "4", "5", "6", "7", "8", "9" >>

\* seed.to_string()
RECURSIVE to_string(_)
to_string(n) ==
    IF n < 10 THEN << DigitChars[n + 1] >>
    ELSE to_string(n \div 10) \o << DigitChars[(n % 10) + 1] >>

\* format!("{:04}", seed): zero-padded to at least four digits
Format04(n) ==
    LET d == to_string(n)
    IN  IF Len(d) >= 4 THEN d ELSE [i \in 1..(4 - Len(d)) |-> "0"] \o d

SEED == << "{", "S", "E", "E", "D", "}" >>
SEED04 == << "{", "S", "E", "E", "D", "0", "4", "}" >>

StartsWith(s, p) == Len(s) >= Len(p) /\ SubSeq(s, 1, Len(p)) = p

\* str::replace(from, to): the non-overlapping matches of from, left to right
RECURSIVE Replace(_, _, _)
Replace(s, from, to) ==
    IF Len(s) < Len(from) THEN s
    ELSE IF StartsWith(s, from)
         THEN to \o Replace(SubSeq(s, Len(from) + 1, Len(s)), from, to)
         ELSE << Head(s) >> \o Replace(Tail(s), from, to)

replace_placeholder(s, seed) ==
    Replace(Replace(s, SEED, to_string(seed)), SEED04, Format04(seed))

----------------------------------------------------------------------------
(* multi.rs: TestStats *)

ScoreOk(r) == r.score.ok
RelOk(r) == r.relative_score.ok

\* The results before the first Failure
RECURSIVE UntilFirstErr(_)
UntilFirstErr(rs) ==
    IF rs = <<>> \/ ~Head(rs).score.ok THEN <<>>
    ELSE <<Head(rs)>> \o UntilFirstErr(Tail(rs))

ScoreSum_MapWhile(rs) ==
    LET kept == UntilFirstErr(rs)
    IN  SumSeq([i \in 1..Len(kept) |-> kept[i].score.v])

\* results.iter().filter_map(|r| r.score().as_ref().ok().map(|s| s.get())).sum()
ScoreSum(rs) ==
    LET kept == SelectSeq(rs, ScoreOk)
    IN  SumSeq([i \in 1..Len(kept) |-> kept[i].score.v])

ScoreSumLog10_OfSum(rs) ==
    LET kept == SelectSeq(rs, ScoreOk)
    IN  Max2(Log10Floor(SumSeq([i \in 1..Len(kept) |-> kept[i].score.v])) * Milli, 0)

\* results.iter().filter_map(|r| r.score_log10().ok()).sum::<f64>().max(0.0)
ScoreSumLog10(rs) ==
    LET kept == SelectSeq(rs, ScoreOk)
    IN  Max2(SumSeq([i \in 1..Len(kept) |-> score_log10(kept[i])]), 0)

RelativeScoreSum_FromScore(rs) ==
    LET kept == SelectSeq(rs, ScoreOk)
    IN  Max2(SumSeq([i \in 1..Len(kept) |-> kept[i].score.v * Milli]), 0)

\* results.iter().filter_map(|r| r.relative_score().as_ref().ok()).sum::<f64>().max(0.0)
RelativeScoreSum(rs) ==
    LET kept == SelectSeq(rs, RelOk)
    IN  Max2(SumSeq([i \in 1..Len(kept) |-> kept[i].relative_score.v]), 0)

TestStatsNew(rs) ==
    [ results |-> rs,
      score_sum |-> ScoreSum(rs),
      score_sum_log10 |-> ScoreSumLog10(rs),
      relative_score_sum |-> RelativeScoreSum(rs) ]

\* results.sort_unstable_by_key(|r| r.test_case().seed())
RECURSIVE InsertBySeed(_, _)
InsertBySeed(r, s) ==
    IF s = <<>> THEN <<r>>
    ELSE IF r.test_case.seed <= Head(s).test_case.seed THEN <<r>> \o s
    ELSE <<Head(s)>> \o InsertBySeed(r, Tail(s))

RECURSIVE SortBySeed(_)
SortBySeed(s) == IF s = <<>> THEN <<>> ELSE InsertBySeed(Head(s), SortBySeed(Tail(s)))

----------------------------------------------------------------------------
(* The environment: outputs of the test steps *)

\* echo "Score = <n>": stdout holds one capture, stderr is empty
Echo(m, t) == StepsOk(<< <<Cap(m)>>, <<>> >>, t)

EchoScore100 == Echo(100 * Milli, 2)               \* echo "Score = 100"
EchoScore1 == Echo(1 * Milli, 1)                   \* echo "Score = 1"
EchoScore0 == Echo(0, 1)                           \* echo "Score = 0"
EchoInvalid == StepsOk(<< <<>>, <<>> >>, 1)        \* echo "invalid_output"
RunFalse == StepsErr("Failed to run")              \* false

\* The ways a case fails: a failing step, no score in the output, a score of 0
FailureOutcomes == {RunFalse, EchoInvalid, EchoScore0}
Outcomes == {EchoScore100} \cup FailureOutcomes

\* The solvers of the engine runs: any subset of the seeds fails, in one of the
\* ways above, and every other seed prints Score = 100
Solvers(seeds) ==
    { [s \in seeds |-> IF s \in F THEN bad ELSE EchoScore100] :
        F \in SUBSET seeds, bad \in FailureOutcomes }

\* The stored best scores of the engine runs (those of test_multi_case_runner)
StoredBest ==
    [s \in AllSeeds |-> CASE s = 0 -> 100 [] s = 1 -> 200 [] s = 2 -> 50 [] OTHER -> None]

----------------------------------------------------------------------------
\* thread_cnt of start_tests
ThreadCnt_Cpus == cpus
ThreadCnt == IF settings.threads = 0 THEN cpus ELSE settings.threads

\* settings.problem.score_regex: a pattern with the named group `score`, a
\* pattern that compiles but has no such group, or a pattern that does not compile
ScoreRegexes == {"named", "unnamed", "invalid"}

\* Regex::new(&settings.problem.score_regex) is Ok
RegexCompiles(re) == re # "invalid"

ValidSettings_AnyRange == RegexCompiles(settings.score_regex)
ValidSettings == RegexCompiles(settings.score_regex) /\ settings.start_seed < settings.end_seed

\* RunArgs with every flag but shuffle absent
PlainArgs(shuffle) ==
    [shuffle |-> shuffle, no_compile |-> FALSE, freeze_best_scores |-> FALSE,
     no_result_file |-> FALSE]

\* No unit test is running
NoCall == [fn |-> "none"]
\* git::commit is not running
NoRepo == [head |-> 0, staged |-> FALSE, dirty |-> FALSE, tags |-> {}]
GitIdle == git_pc = [at |-> "idle", has_diff |-> FALSE] /\ repo = NoRepo
UnitIdle == call = NoCall /\ ret = <<>> /\ writer = <<>> /\ GitIdle

\* No SingleCaseRunner::run is being followed step by step
SingleIdle ==
    /\ test_steps = <<>>
    /\ step_pc = [i |-> 0, at |-> "idle", e |-> "", score |-> NoneF]
    /\ outputs = <<>>
    /\ execution_time = 0
    /\ files = <<>>
    /\ trace = <<>>
    /\ case_result = <<>>

\* The compile phase of run is over (there was nothing to compile) and nothing
\* has been written yet
NoFiles == [best_scores |-> <<>>, summary_log |-> 0, json_log |-> 0]
RunIdle ==
    /\ compile_steps = <<>>
    /\ compile_log = <<>>
    /\ out_dir = NoFiles

Init ==
    /\ pc = "validate"
    /\ settings \in [ start_seed : StartSeeds,
                      end_seed : 0 .. MaxCases,
                      threads : 0 .. (MaxThreads - 1),
                      objective : Objectives,
                      score_regex : {"named", "invalid"} ]
    /\ args \in { PlainArgs(sh) : sh \in BOOLEAN }
    /\ best_scores = StoredBest
    /\ solver \in Solvers(SeedsOf(settings))
    /\ cpus = MaxThreads
    /\ test_cases = <<>>
    /\ submitted = 0
    /\ queue = <<>>
    /\ running = {}
    /\ tx_count = 0
    /\ channel = <<>>
    /\ cur = <<>>
    /\ results = <<>>
    /\ printer = [testcase_count |-> 0, completed_count |-> 0,
                  score_sum |-> 0, relative_score_sum |-> 0]
    /\ stats = <<>>
    /\ send_order = <<>>
    /\ on_case_log = <<>>
    /\ on_case_done = 0
    /\ summary_log = <<>>
    /\ RunIdle
    /\ SingleIdle
    /\ UnitIdle

config == << settings, args, best_scores, solver, cpus >>
history == << send_order, on_case_log, on_case_done, summary_log >>

----------------------------------------------------------------------------
(* runner.rs: run, from the regex compilation to runner.run() *)

\* Regex::new(..)? and ensure!(!seed_range.is_empty(), ..)
Reject ==
    /\ pc = "validate"
    /\ ~ValidSettings
    /\ pc' = "rejected"
    /\ UNCHANGED << outside, config, test_cases, submitted, queue, running, tx_count, channel,
                    cur, results, printer, stats, history >>

\* seed_range.map(TestCase::new).collect(), the optional shuffle, and the head of
\* start_tests: ThreadPool::new, mpsc::channel()
BuildCases ==
    /\ pc = "validate"
    /\ ValidSettings
    /\ LET n == settings.end_seed - settings.start_seed
           cases == [i \in 1..n |->
                        TestCaseNew(settings.start_seed + i - 1,
                                    best_scores[settings.start_seed + i - 1],
                                    settings.objective)]
       IN  \E p \in Perms(n) :
              /\ (~args.shuffle => p = [i \in 1..n |-> i])
              /\ test_cases' = [i \in 1..n |-> cases[p[i]]]
    /\ tx_count' = 1
    /\ pc' = "submit"
    /\ UNCHANGED << outside, config, submitted, queue, running, channel, cur, results,
                    printer, stats, history >>

----------------------------------------------------------------------------
(* multi.rs: start_tests *)

\* One iteration of the for loop: tx.clone() and threadpool.execute(job)
Submit ==
    /\ pc = "submit"
    /\ submitted < Len(test_cases)
    /\ submitted' = submitted + 1
    /\ queue' = Append(queue, test_cases[submitted + 1])
    /\ tx_count' = tx_count + 1
    /\ UNCHANGED << outside, pc, config, test_cases, running, channel, cur, results,
                    printer, stats, history >>

\* start_tests returns only rx: the original tx is dropped with its scope
TxKept(n) == n
TxAfterStartTests(n) == n - 1

\* ResultPrinter::new / ConsolePrinter::new: assert!(testcase_count > 0) and the
\* fields of the new printer
AssertNew(testcase_count) == testcase_count > 0
PrinterNew(testcase_count) ==
    [testcase_count |-> testcase_count, completed_count |-> 0,
     score_sum |-> 0, relative_score_sum |-> 0]

\* The loop is over: start_tests returns rx; tx and the pool handle go out of
\* scope.  collect_results creates the results vector and the printer.
StartCollect ==
    /\ pc = "submit"
    /\ submitted = Len(test_cases)
    /\ tx_count' = TxAfterStartTests(tx_count)
    /\ results' = <<>>
    /\ printer' = PrinterNew(Len(test_cases))
    /\ pc' = IF AssertNew(Len(test_cases)) THEN "collect" ELSE "panic"
    /\ UNCHANGED << outside, config, test_cases, submitted, queue, running, channel, cur,
                    stats, history >>

\* The job queue after a pool thread has received its oldest job: a job is
\* received by one thread and leaves the queue
Dequeued_Peek(q) == q
Dequeued(q) == Tail(q)

\* An idle pool thread (there are thread_cnt of them) takes the next job of the queue
WorkerTake ==
    /\ Cardinality(running) < ThreadCnt
    /\ queue # <<>>
    /\ running' = running \cup {Head(queue)}
    /\ queue' = Dequeued(queue)
    /\ UNCHANGED << outside, pc, config, test_cases, submitted, tx_count, channel, cur,
                    results, printer, stats, history >>

\* tx.send(result)
ChannelSend_DropErr(ch, result) == IF result.score.ok THEN Append(ch, result) ELSE ch
ChannelSend(ch, result) == Append(ch, result)

\* A solver process that never terminates: cmd.output() does not return
NeverExits == [ok |-> FALSE, e |-> "never exits", outputs |-> <<>>, time |-> 0]

\* runner.run(test_case) returns when the processes of its steps have exited;
\* nothing waits with a timeout and nothing kills a process
Exits_Killed(tc) == TRUE
Exits(tc) == solver[tc.seed] # NeverExits

\* The job body: runner.run(test_case), tx.send(result); the closure's tx is dropped
WorkerFinish(tc) ==
    /\ tc \in running
    /\ Exits(tc)
    /\ channel' = ChannelSend(channel, SingleRun(tc, solver[tc.seed]))
    /\ send_order' = Append(send_order, tc.seed)
    /\ running' = running \ {tc}
    /\ tx_count' = tx_count - 1
    /\ UNCHANGED << outside, pc, config, test_cases, submitted, queue, cur, results,
                    printer, stats, on_case_log, on_case_done, summary_log >>

----------------------------------------------------------------------------
(* multi.rs: collect_results, and the printer *)

\* rx.recv() inside `for result in rx`: the oldest result in flight
ChannelRecv_Last(ch) == ch[Len(ch)]
ChannelRecv(ch) == Head(ch)
ChannelRest(ch) == Tail(ch)

Recv ==
    /\ pc = "collect"
    /\ channel # <<>>
    /\ cur' = <<ChannelRecv(channel)>>
    /\ channel' = ChannelRest(channel)
    /\ on_case_log' = Append(on_case_log, ChannelRecv(channel).test_case.seed)
    /\ pc' = "on_case"
    /\ UNCHANGED << outside, config, test_cases, submitted, queue, running, tx_count,
                    results, printer, stats, send_order, on_case_done, summary_log >>

\* gen_record / print_case: the counters the printer keeps
gen_record_SumsSwapped(p, result) ==
    [ p EXCEPT !.completed_count = @ + 1,
               !.score_sum =
                    @ + (IF result.relative_score.ok THEN result.relative_score.v ELSE 0),
               !.relative_score_sum = @ + (IF result.score.ok THEN result.score.v ELSE 0) ]
gen_record(p, result) ==
    [ p EXCEPT !.completed_count = @ + 1,
               !.score_sum = @ + (IF result.score.ok THEN result.score.v ELSE 0),
               !.relative_score_sum =
                    @ + (IF result.relative_score.ok THEN result.relative_score.v ELSE 0) ]

\* gen_record / print_case: assert!(self.completed_count <= self.testcase_count),
\* on the counters already incremented
AssertCount(p) == p.completed_count <= p.testcase_count

\* gen_record / print_case: if self.completed_count == 1, the header is generated
HeaderDue_BeforeIncrement(p) == p.completed_count = 0
HeaderDue(p) == p.completed_count = 1

\* gen_header / print_header: assert!(self.completed_count == 1)
AssertHeader(p) == p.completed_count = 1

\* Whether gen_record / print_case panics on one of its assertions
RecordPanics(p) == ~AssertCount(p) \/ (HeaderDue(p) /\ ~AssertHeader(p))

\* The loop body: print the record, results.push(result)
OnCase ==
    /\ pc = "on_case"
    /\ printer' = gen_record(printer, cur[1])
    /\ IF RecordPanics(gen_record(printer, cur[1]))
       THEN /\ pc' = "panic"
            /\ UNCHANGED << results, cur, on_case_done >>
       ELSE /\ results' = Append(results, cur[1])
            /\ cur' = <<>>
            /\ on_case_done' = on_case_done + 1
            /\ pc' = "collect"
    /\ UNCHANGED << outside, config, test_cases, submitted, queue, running, tx_count,
                    channel, stats, send_order, on_case_log, summary_log >>

\* `for result in rx` ends when the channel is empty and every Sender is dropped
ChannelClosed_NoWait == channel = <<>>
ChannelClosed_FailFast ==
    \/ channel = <<>> /\ tx_count = 0
    \/ results # <<>> /\ ~results[Len(results)].score.ok
ChannelClosed == channel = <<>> /\ tx_count = 0

RecvClosed ==
    /\ pc = "collect"
    /\ ChannelClosed
    /\ pc' = "sort"
    /\ UNCHANGED << outside, config, test_cases, submitted, queue, running, tx_count, channel,
                    cur, results, printer, stats, history >>

SortResults_None(rs) == rs
SortResults_Desc(rs) == LET a == SortBySeed(rs) IN [i \in 1..Len(a) |-> a[Len(a) + 1 - i]]
SortResults(rs) == SortBySeed(rs)

Sort ==
    /\ pc = "sort"
    /\ results' = SortResults(results)
    /\ pc' = "stats"
    /\ UNCHANGED << outside, config, test_cases, submitted, queue, running, tx_count, channel,
                    cur, printer, stats, history >>

BuildStats ==
    /\ pc = "stats"
    /\ stats' = <<TestStatsNew(results)>>
    /\ pc' = "summary"
    /\ UNCHANGED << outside, config, test_cases, submitted, queue, running, tx_count, channel,
                    cur, results, printer, history >>

\* ac_count of gen_stats_footer / print_summary
IsErr(r) == ~r.score.ok
AcCount(st) == Len(st.results) - Len(SelectSeq(st.results, IsErr))

\* print_summary: max_time, the largest execution_time of the results
MaxExecutionTime_OfSuccesses(rs) ==
    IF SelectSeq(rs, LAMBDA r : r.score.ok) = <<>> THEN 0
    ELSE CHOOSE m \in { rs[i].execution_time : i \in { j \in 1..Len(rs) : rs[j].score.ok } } :
            \A i \in 1..Len(rs) : rs[i].score.ok => rs[i].execution_time <= m
MaxExecutionTime(rs) ==
    IF rs = <<>> THEN 0
    ELSE CHOOSE m \in { rs[i].execution_time : i \in 1..Len(rs) } :
            \A i \in 1..Len(rs) : rs[i].execution_time <= m

\* gen_stats_footer / print_summary, then collect_results returns stats
Summary ==
    /\ pc = "summary"
    /\ summary_log' = Append(summary_log,
                             [stats |-> stats[1], on_case_done |-> on_case_done,
                              accepted |-> AcCount(stats[1]),
                              max_time |-> MaxExecutionTime(stats[1].results)])
    /\ pc' = "done"
    /\ UNCHANGED << outside, config, test_cases, submitted, queue, running, tx_count, channel,
                    cur, results, printer, stats, send_order, on_case_log, on_case_done >>

Next ==
    \/ Reject
    \/ BuildCases
    \/ Submit
    \/ StartCollect
    \/ WorkerTake
    \/ \E tc \in running : WorkerFinish(tc)
    \/ Recv
    \/ OnCase
    \/ RecvClosed
    \/ Sort
    \/ BuildStats
    \/ Summary

Spec == Init /\ [][Next]_vars

\* The operating system schedules every runnable thread, and every solver process
\* terminates: the main thread and the pool threads each keep taking their steps
MainThread ==
    Reject \/ BuildCases \/ Submit \/ StartCollect \/ Recv \/ OnCase \/ RecvClosed
    \/ Sort \/ BuildStats \/ Summary
PoolThreads == WorkerTake \/ \E tc \in running : WorkerFinish(tc)

\* Termination does not depend on what the solvers print (no guard reads a
\* result), so the fair runs are taken over the uniform solvers: every case
\* behaves the same way, in any of the ways of Outcomes
InitLive == Init /\ \A s, t \in SeedsOf(settings) : solver[s] = solver[t]

FairSpec == InitLive /\ [][Next]_vars /\ WF_vars(MainThread) /\ WF_vars(PoolThreads)

----------------------------------------------------------------------------
(* The final report *)

N == settings.end_seed - settings.start_seed
Report == stats[1]
SeedAt(rs, i) == rs[i].test_case.seed

\* The case runner::run builds for a seed
CaseOf(seed) == TestCaseNew(seed, best_scores[seed], settings.objective)

\* The results of running the cases one after another in seed order
SequentialResults ==
    [i \in 1..N |-> SingleRun(CaseOf(settings.start_seed + i - 1),
                               solver[settings.start_seed + i - 1])]

Ascending(seq) == \A i \in 1..(Len(seq) - 1) : seq[i] < seq[i + 1]

\* C1: when the run of a valid configuration is over, the report holds exactly
\* end - start results and every seed of [start, end) is the seed of exactly one
\* of them.
C1_OneResultPerSeed ==
    pc = "done" =>
        /\ Len(Report.results) = settings.end_seed - settings.start_seed
        /\ \A s \in SeedsOf(settings) :
              Cardinality({i \in 1..Len(Report.results) : SeedAt(Report.results, i) = s}) = 1

C1_Witness ==
    /\ pc = "done"
    /\ Len(Report.results) = MaxCases
    /\ ThreadCnt >= 2
    /\ ~Ascending(send_order)

\* C2: the results of the final report are in ascending seed order,
\* results[i].seed = start + i (0-based), whatever the completion order of the
\* workers and whatever the submission order.
C2_SortedBySeed ==
    pc = "done" =>
        \A i \in 1..Len(Report.results) :
            SeedAt(Report.results, i) = settings.start_seed + i - 1

C2_Witness ==
    /\ pc = "done"
    /\ args.shuffle
    /\ Len(test_cases) = MaxCases
    /\ ~Ascending([i \in 1..Len(test_cases) |-> test_cases[i].seed])
    /\ ~Ascending(send_order)
    /\ send_order # [i \in 1..Len(test_cases) |-> test_cases[i].seed]

IsPrefix(a, b) == Len(a) <= Len(b) /\ \A i \in 1..Len(a) : a[i] = b[i]

\* C3: on_case is entered for one result at a time, in the order in which the
\* workers sent their results: the seeds given to on_case are a prefix of the send
\* order, and at most one invocation is in progress (exactly when the main thread
\* is in the loop body).
C3_SerialInCompletionOrder ==
    /\ IsPrefix(on_case_log, send_order)
    /\ Len(on_case_log) - on_case_done \in {0, 1}
    /\ (Len(on_case_log) - on_case_done = 1) <=> (pc = "on_case")

C3_Witness ==
    /\ pc = "on_case"
    /\ ~args.shuffle
    /\ Len(on_case_log) >= 2
    /\ on_case_log[1] > on_case_log[2]
    /\ channel # <<>>

\* C4: the summary is produced exactly once per run, with the sorted results, after
\* all N on_case invocations have returned; no on_case invocation follows it.
C4_SummaryOnceAfterAllCases ==
    /\ Len(summary_log) <= 1
    /\ (pc = "done" => Len(summary_log) = 1)
    /\ (summary_log # <<>> =>
            /\ pc = "done"
            /\ summary_log[1].on_case_done = N
            /\ Len(summary_log[1].stats.results) = N
            /\ Ascending([i \in 1..N |-> SeedAt(summary_log[1].stats.results, i)])
            /\ on_case_done = N
            /\ Len(on_case_log) = N)

C4_Witness ==
    /\ Len(summary_log) = 1
    /\ summary_log[1].on_case_done = MaxCases
    /\ ~Ascending(on_case_log)

Delivered(s) == \E i \in 1..on_case_done : on_case_log[i] = s
Dispatched(s) == \E i \in 1..submitted : test_cases[i].seed = s

\* C5: when every solver process terminates, a run that starts dispatching
\* terminates: every dispatched case is eventually delivered to on_case, and
\* eventually the channel is closed (no sender left), the report is built and the
\* run is over.
C5_RunTerminates ==
    (pc = "submit") ~>
        /\ pc = "done"
        /\ tx_count = 0
        /\ stats # <<>>
        /\ submitted = N
        /\ \A s \in SeedsOf(settings) : Dispatched(s) /\ Delivered(s)

C5_Witness ==
    /\ pc = "done"
    /\ tx_count = 0
    /\ on_case_done = MaxCases
    /\ \A s \in SeedsOf(settings) : Delivered(s)
    /\ settings.threads = 0

Faulty(s) == solver[s] \in FailureOutcomes
ExpectedError(o) ==
    IF ~o.ok THEN o.e ELSE IF o = EchoInvalid THEN "Score not found" ELSE "Wrong Answer"

\* C6: a case that fails (a failing step, a missing score, a wrong score) yields a
\* Failure result of that case only: the run still ends with a report of all N
\* cases, the failing case carries its own error (and execution time 0 when a
\* step failed), and every other case has the result it has when it is run
\* alone, the Success it would have if the failing cases had succeeded.
C6_FailureStaysLocal ==
    pc = "done" =>
        /\ Len(Report.results) = N
        /\ \A i \in 1..Len(Report.results) :
              LET r == Report.results[i]
                  s == r.test_case.seed
              IN  /\ s \in SeedsOf(settings)
                  /\ Faulty(s) =>
                        /\ ~r.score.ok
                        /\ ~r.relative_score.ok
                        /\ r.score.e = ExpectedError(solver[s])
                        /\ ~solver[s].ok => r.execution_time = 0
                  /\ ~Faulty(s) =>
                        /\ r = SingleRun(CaseOf(s), EchoScore100)
                        /\ r.score = Ok(100)

C6_Witness ==
    /\ pc = "done"
    /\ N = MaxCases
    /\ Faulty(on_case_log[1])
    /\ solver[on_case_log[1]] = EchoScore0
    /\ \E i \in 2..N : ~Faulty(on_case_log[i])
    /\ \E i \in 1..N : Report.results[i].score.ok
    /\ \E i \in 1..N : ~Report.results[i].score.ok

\* C7: the report is a function of the cases and of the (deterministic) solver
\* alone: for every thread count, submission order and interleaving it is the
\* report of the cases run one after another in seed order, so two runs that
\* differ only in the thread count produce the same results and sums.
C7_ReportIndependentOfThreads ==
    pc = "done" => Report = TestStatsNew(SequentialResults)

C7_Witness ==
    /\ pc = "done"
    /\ settings.threads = 0
    /\ ThreadCnt >= 2
    /\ args.shuffle
    /\ send_order # [i \in 1..N |-> settings.start_seed + i - 1]
    /\ send_order # [i \in 1..Len(test_cases) |-> test_cases[i].seed]
    /\ Report.score_sum > 0

----------------------------------------------------------------------------
(* The aggregation of the results, on richer scores and references: a sequential  *)
(* run (one thread, no shuffle) taken from the moment its last result has been    *)
(* handled by the loop body of collect_results.                                    *)

MaxResults == 4

AggReferences == {None, 50, 100, 200}
AggOutcomes == {EchoScore100, EchoScore1, RunFalse}

RECURSIVE PrinterAfter(_, _)
PrinterAfter(p, rs) ==
    IF rs = <<>> THEN p ELSE PrinterAfter(gen_record(p, Head(rs)), Tail(rs))

InitAgg ==
    /\ pc = "collect"
    /\ settings \in [ start_seed : {0},
                      end_seed : 1 .. MaxResults,
                      threads : {1},
                      objective : Objectives,
                      score_regex : {"named"} ]
    /\ args = PlainArgs(FALSE)
    /\ best_scores \in [SeedsOf(settings) -> AggReferences]
    /\ solver \in [SeedsOf(settings) -> AggOutcomes]
    /\ cpus = MaxThreads
    /\ test_cases = [i \in 1..N |-> CaseOf(i - 1)]
    /\ submitted = N
    /\ queue = <<>>
    /\ running = {}
    /\ tx_count = 0
    /\ channel = <<>>
    /\ cur = <<>>
    /\ results = SequentialResults
    /\ printer = PrinterAfter([testcase_count |-> N, completed_count |-> 0,
                               score_sum |-> 0, relative_score_sum |-> 0],
                              SequentialResults)
    /\ stats = <<>>
    /\ send_order = [i \in 1..N |-> i - 1]
    /\ on_case_log = [i \in 1..N |-> i - 1]
    /\ on_case_done = N
    /\ summary_log = <<>>
    /\ RunIdle
    /\ SingleIdle
    /\ UnitIdle

NextAgg == RecvClosed \/ Sort \/ BuildStats \/ Summary

SpecAgg == InitAgg /\ [][NextAgg]_vars

RECURSIVE SumOver(_, _)
\* The sum of f[i] over the indices i of I
SumOver(I, f) ==
    IF I = {} THEN 0
    ELSE LET i == CHOOSE j \in I : TRUE IN f[i] + SumOver(I \ {i}, f)

SuccessIdx(rs) == {i \in 1..Len(rs) : rs[i].score.ok}

\* C8: score_sum of the report is the sum of the scores of exactly its Success
\* results; a Failure contributes 0.
C8_ScoreSumOfSuccesses ==
    stats # <<>> =>
        Report.score_sum =
            SumOver(SuccessIdx(Report.results),
                    [i \in 1..Len(Report.results) |-> Report.results[i].score.v])

C8_Witness ==
    /\ stats # <<>>
    /\ Len(Report.results) >= 3
    /\ ~Report.results[1].score.ok
    /\ \E i, j \in SuccessIdx(Report.results) :
          Report.results[i].score.v # Report.results[j].score.v

\* C9: relative_score_sum of the report is the sum of the relative scores of
\* exactly its Success results, and not below 0; for the references
\* 100, 200, 50, absent under Max with score 100 everywhere it is 450.
C9_RelativeSumOfSuccesses ==
    stats # <<>> =>
        /\ Report.relative_score_sum =
              Max2(0, SumOver(SuccessIdx(Report.results),
                              [i \in 1..Len(Report.results) |->
                                  Report.results[i].relative_score.v]))
        /\ Report.relative_score_sum >= 0
        /\ ( /\ N = 4
             /\ settings.objective = "Max"
             /\ best_scores = [s \in 0..3 |->
                                 CASE s = 0 -> 100 [] s = 1 -> 200 [] s = 2 -> 50 [] OTHER -> None]
             /\ \A s \in 0..3 : solver[s] = EchoScore100 )
           => Report.relative_score_sum = 450 * Milli

C9_Witness ==
    /\ stats # <<>>
    /\ N = 4
    /\ settings.objective = "Max"
    /\ best_scores[0] = 100 /\ best_scores[1] = 200 /\ best_scores[2] = 50
    /\ best_scores[3] = None
    /\ \A s \in 0..3 : solver[s] = EchoScore100
    /\ Report.relative_score_sum = 450 * Milli

\* C10: score_sum_log10 of the report is max(0, sum of log10 of the Success scores)
\* and so never negative; when every case fails the report still has N results,
\* score_sum = 0, score_sum_log10 = 0 and accepted = 0.
C10_Log10SumNotNegative ==
    stats # <<>> =>
        /\ Report.score_sum_log10 >= 0
        /\ Report.score_sum_log10 =
              Max2(0, SumOver(SuccessIdx(Report.results),
                              [i \in 1..Len(Report.results) |->
                                  score_log10(Report.results[i])]))
        /\ (SuccessIdx(Report.results) = {} =>
                /\ Len(Report.results) = N
                /\ Report.score_sum = 0
                /\ Report.score_sum_log10 = 0
                /\ (summary_log # <<>> => summary_log[1].accepted = 0))

C10_Witness ==
    /\ pc = "done"
    /\ N >= 2
    /\ \A s \in SeedsOf(settings) : ~solver[s].ok
    /\ Len(Report.results) = N
    /\ Report.score_sum_log10 = 0
    /\ summary_log[1].accepted = 0

\* C11: every Success result of the report carries a relative score, computed
\* from its score new and the reference old its case was created with (the stored
\* best score of its seed): 100 when there is no reference, new / old * 100 under
\* Max and old / new * 100 under Min.
C11_RelativeScoreOfSuccess ==
    stats # <<>> =>
        \A i \in 1..Len(Report.results) :
            LET r == Report.results[i]
                old == r.test_case.reference_score
                new == r.score.v
            IN  r.score.ok =>
                    /\ r.relative_score.ok
                    /\ old = best_scores[r.test_case.seed]
                    /\ r.test_case.objective = settings.objective
                    /\ (old = None => r.relative_score.v = 100 * Milli)
                    /\ (old # None /\ settings.objective = "Max" =>
                            r.relative_score.v * old = new * 100 * Milli)
                    /\ (old # None /\ settings.objective = "Min" =>
                            r.relative_score.v * new = old * 100 * Milli)

C11_Witness ==
    /\ stats # <<>>
    /\ settings.objective = "Min"
    /\ \E i, j \in SuccessIdx(Report.results) :
          /\ Report.results[i].test_case.reference_score = None
          /\ Report.results[j].test_case.reference_score = 200
          /\ Report.results[j].score.v = 100
          /\ Report.results[j].relative_score.v = 200 * Milli

----------------------------------------------------------------------------
(* The unit tests of single.rs: one call of a function of TestCase or of        *)
(* SingleCaseRunner on arguments drawn from bounded sets.                       *)

MaxPieces == 3

UnitScores == {50, 100, 200}
UnitSeeds == {0, 4, 42, 12345}

\* The strings under test: up to MaxPieces pieces, each a placeholder, a part
\* of one, another braced token or plain text
Pieces ==
    { SEED, SEED04,
      << "{", "S", "E", "E", "D", "0" >>,
      << "}" >>,
      << "{", "X", "}" >>,
      << "f", "o", "o" >> }

RECURSIVE Concats(_)
Concats(k) ==
    IF k = 0 THEN { <<>> }
    ELSE { p \o t : p \in Pieces, t \in Concats(k - 1) }

UnitStrings == UNION { Concats(k) : k \in 0..MaxPieces }

\* Nothing of the engine is running
TEST_CASE == TestCaseNew(42, None, "Max")

EngineIdle ==
    /\ pc = "test"
    /\ settings = [start_seed |-> 0, end_seed |-> 0, threads |-> 1,
                   objective |-> "Max", score_regex |-> "named"]
    /\ args = PlainArgs(FALSE)
    /\ best_scores = StoredBest
    /\ solver = <<>>
    /\ cpus = MaxThreads
    /\ submitted = 0
    /\ queue = <<>>
    /\ running = {}
    /\ tx_count = 0
    /\ channel = <<>>
    /\ cur = <<>>
    /\ results = <<>>
    /\ printer = [testcase_count |-> 0, completed_count |-> 0,
                  score_sum |-> 0, relative_score_sum |-> 0]
    /\ stats = <<>>
    /\ send_order = <<>>
    /\ on_case_log = <<>>
    /\ on_case_done = 0
    /\ summary_log = <<>>

engine == << pc, config, test_cases, submitted, queue, running, tx_count, channel,
            cur, results, printer, stats, history >>

InitUnit ==
    /\ EngineIdle
    /\ test_cases = <<>>
    /\ RunIdle
    /\ SingleIdle
    /\ \/ call \in [ fn : {"is_best"},
                      reference_score : UnitScores \cup {None},
                      objective : Objectives,
                      new_score : UnitScores \cup {None} ]
       \/ call \in [ fn : {"replace_placeholder"}, s : UnitStrings, seed : UnitSeeds ]
    /\ ret = <<>>
    /\ writer = <<>>
    /\ GitIdle

test_is_best ==
    /\ call.fn = "is_best"
    /\ ret = <<>>
    /\ ret' = << is_best(TestCaseNew(0, call.reference_score, call.objective),
                         call.new_score) >>
    /\ UNCHANGED << engine, run_vars, single_vars, call, writer, git_vars >>

test_replace_placeholder ==
    /\ call.fn = "replace_placeholder"
    /\ ret = <<>>
    /\ ret' = << replace_placeholder(call.s, call.seed) >>
    /\ UNCHANGED << engine, run_vars, single_vars, call, writer, git_vars >>

NextUnit == test_is_best \/ test_replace_placeholder

SpecUnit == InitUnit /\ [][NextUnit]_vars

\* C12: is_best(new) is FALSE when new is absent; otherwise it is TRUE exactly
\* when the case has no reference, or new >= old under Max, or new <= old under
\* Min; a tie counts as best in both directions.
C12_IsBest ==
    (call.fn = "is_best" /\ ret # <<>>) =>
        LET new == call.new_score
            old == call.reference_score
        IN  /\ (new = None => ret[1] = FALSE)
            /\ (new # None =>
                    (ret[1] <=> \/ old = None
                                \/ call.objective = "Max" /\ new >= old
                                \/ call.objective = "Min" /\ new <= old))
            /\ (new # None /\ new = old => ret[1] = TRUE)

C12_Witness ==
    /\ call.fn = "is_best"
    /\ ret = << TRUE >>
    /\ call.objective = "Min"
    /\ call.new_score = 100
    /\ call.reference_score = 100

\* The string in which every {SEED} of s is replaced by the decimal seed, every
\* {SEED04} by the seed padded to four digits, and every other character is kept
RECURSIVE Expanded(_, _)
Expanded(s, seed) ==
    IF s = <<>> THEN <<>>
    ELSE IF StartsWith(s, SEED)
         THEN to_string(seed) \o Expanded(SubSeq(s, Len(SEED) + 1, Len(s)), seed)
    ELSE IF StartsWith(s, SEED04)
         THEN Format04(seed) \o Expanded(SubSeq(s, Len(SEED04) + 1, Len(s)), seed)
    ELSE << Head(s) >> \o Expanded(Tail(s), seed)

HasToken(s) ==
    \E i \in 1..Len(s) :
        StartsWith(SubSeq(s, i, Len(s)), SEED) \/ StartsWith(SubSeq(s, i, Len(s)), SEED04)

\* C20: replace_placeholder(s, seed) is s with every {SEED} replaced by the
\* decimal seed and every {SEED04} by the seed zero-padded to four digits, every
\* other character unchanged; it is the identity on a string without such a
\* token, and applying it to its own result changes nothing.
C20_PlaceholderExpansion ==
    (call.fn = "replace_placeholder" /\ ret # <<>>) =>
        /\ ret[1] = Expanded(call.s, call.seed)
        /\ (~HasToken(call.s) => ret[1] = call.s)
        /\ replace_placeholder(ret[1], call.seed) = ret[1]

----------------------------------------------------------------------------
(* single.rs: one SingleCaseRunner::run, followed step by step.                  *)
(* A step is its TestStep fields together with what its command does when it is *)
(* run: whether the stdin file opens, the process spawns, the output files can  *)
(* be written, the captured stdout and stderr, the exit status, the elapsed     *)
(* time.  Option<String> None is "".                                            *)

MaxSteps == 2

OkStep ==
    [ stdin |-> "", stdout |-> "", stderr |-> "", measure_time |-> TRUE,
      os_regex |-> "none",
      opens |-> TRUE, spawns |-> TRUE, writes_stdout |-> TRUE, writes_stderr |-> TRUE,
      exit_ok |-> TRUE, out |-> <<>>, err |-> <<>>, elapsed |-> 2 ]

\* Steps that print scores: no files, no failure
OutBufs ==
    { <<>>,                                   \* invalid_output
      << Cap(100 * Milli) >>,                 \* Score = 100
      << Cap(1 * Milli), Cap(9 * Milli) >>,   \* Score = 1, then Score = 9
      << Cap(9 * Milli), BadCap >>,           \* Score = 9, then a capture that is no number
      << NoGroupCap >>,                       \* a match without the score group
      << Cap(0) >>,                           \* Score = 0
      << Cap(-3 * Milli) >>,                  \* Score = -3
      << Cap(1500) >>,                        \* Score = 1.5
      << Cap(500) >> }                        \* Score = 0.5
ErrBufs == { <<>>, << Cap(7 * Milli) >>, << BadCap >> }

ExtractSteps == { [OkStep EXCEPT !.out = o, !.err = e] : o \in OutBufs, e \in ErrBufs }

\* Steps with files and failures: <<stdin, stdout, stderr>> and the point of failure
IoFiles ==
    { << "", "", "" >>,
      << "in.txt", "out.txt", "err.txt" >>,
      << "in.txt", "out.txt", "out.txt" >>,
      << "", "log.txt", "" >> }
IoModes == { "ok", "stdin", "spawn", "write_stdout", "write_stderr", "exit" }

IoStep(f, m, mt) ==
    [ stdin |-> f[1], stdout |-> f[2], stderr |-> f[3], measure_time |-> mt,
      os_regex |-> "none",
      opens |-> m # "stdin", spawns |-> m # "spawn",
      writes_stdout |-> m # "write_stdout", writes_stderr |-> m # "write_stderr",
      exit_ok |-> m # "exit",
      out |-> << Cap(100 * Milli) >>, err |-> << BadCap >>, elapsed |-> 1 ]

IoSteps ==
    { IoStep(f, m, mt) : f \in IoFiles, m \in IoModes, mt \in BOOLEAN } \
    { st \in { IoStep(f, m, mt) : f \in IoFiles, m \in IoModes, mt \in BOOLEAN } :
        \/ ~st.opens /\ st.stdin = ""
        \/ ~st.writes_stdout /\ st.stdout = ""
        \/ ~st.writes_stderr /\ st.stderr = "" }

\* Steps that differ in their time: no files, no failure, a score, a zero score
\* or no score printed, the measure_time flag and the elapsed time
TimeSteps ==
    { [OkStep EXCEPT !.out = o, !.measure_time = mt, !.elapsed = el] :
        o \in { << Cap(100 * Milli) >>, << Cap(0) >>, <<>> },
        mt \in BOOLEAN, el \in {1, 2, 5} }

\* Steps whose table in the settings file has an os_regex key: a pattern that
\* matches the running OS, one that does not, one that is not a regex.  TestStep
\* has no such field: the key is dropped when the settings are loaded, and
\* neither build_cmd nor run_cmd can read it.
OsSteps ==
    { [OkStep EXCEPT !.os_regex = r, !.out = << Cap(100 * Milli) >>,
                     !.exit_ok = x, !.elapsed = el] :
        r \in {"match", "nomatch", "invalid"}, x \in BOOLEAN, el \in {1, 2} }

\* The output file a case of another seed has written before this case runs
PriorFiles == [q \in {"out_0000.txt"} |-> << Cap(1 * Milli) >>]

SeqsUpTo(S, n) == UNION { [1..k -> S] : k \in 0..n }

InitCase ==
    /\ EngineIdle
    /\ RunIdle
    /\ UnitIdle
    /\ test_cases = << TEST_CASE >>
    /\ test_steps \in SeqsUpTo(ExtractSteps, MaxSteps) \cup SeqsUpTo(IoSteps, MaxSteps)
                        \cup SeqsUpTo(TimeSteps, MaxSteps)
                        \cup SeqsUpTo(OsSteps, MaxSteps)
    /\ step_pc = [i |-> 1, at |-> "loop", e |-> "", score |-> NoneF]
    /\ outputs = <<>>
    /\ execution_time = 0
    /\ files = PriorFiles
    /\ trace = <<>>
    /\ case_result = <<>>

At(phase) == step_pc.at = phase
Goto(phase) == step_pc' = [step_pc EXCEPT !.at = phase]
\* The ? operator: run_steps returns Err(e)
Fail(e) == step_pc' = [step_pc EXCEPT !.at = "err", !.e = e]
ThisStep == test_steps[step_pc.i]

\* The order of run_cmd: cmd.output(), the two file writes, the two pushes, and
\* the check of the exit status last
run_cmd_order_EnsureFirst == << "output", "ensure", "write_stdout", "write_stderr", "push" >>
run_cmd_order == << "output", "write_stdout", "write_stderr", "push", "ensure" >>

\* What follows a phase of run_cmd; after the last one run_cmd returns Ok(elapsed)
NextPhase(phase) ==
    LET k == CHOOSE j \in 1..Len(run_cmd_order) : run_cmd_order[j] = phase
    IN  IF k = Len(run_cmd_order) THEN "measure" ELSE run_cmd_order[k + 1]

case_frame == << engine, run_vars, unit_vars, test_steps >>

\* for step in self.steps.iter()
LoopHead ==
    /\ At("loop")
    /\ IF step_pc.i > Len(test_steps) THEN Goto("extract") ELSE Goto("build_cmd")
    /\ UNCHANGED << case_frame, outputs, execution_time, files, trace, case_result >>

\* build_cmd: File::open(stdin)?
BuildCmd ==
    /\ At("build_cmd")
    /\ IF ThisStep.stdin # "" /\ ~ThisStep.opens
       THEN Fail("Failed to open input file")
       ELSE Goto(run_cmd_order[1])
    /\ UNCHANGED << case_frame, outputs, execution_time, files, trace, case_result >>

\* run_cmd: cmd.output()?
CmdOutput ==
    /\ At("output")
    /\ IF ~ThisStep.spawns THEN Fail("Failed to run. command") ELSE Goto(NextPhase("output"))
    /\ UNCHANGED << case_frame, outputs, execution_time, files, trace, case_result >>

\* std::fs::write(path, contents)
WriteFile_Only(fs, path, contents) == [q \in {path} |-> contents]
WriteFile(fs, path, contents) ==
    [q \in (DOMAIN fs) \cup {path} |-> IF q = path THEN contents ELSE fs[q]]

\* run_cmd: write_output(stdout path, &output.stdout)?
WriteStdout ==
    /\ At("write_stdout")
    /\ IF ThisStep.stdout = ""
       THEN Goto(NextPhase("write_stdout")) /\ UNCHANGED << files, trace >>
       ELSE IF ~ThisStep.writes_stdout
       THEN Fail("Failed to write stdout") /\ UNCHANGED << files, trace >>
       ELSE /\ files' = WriteFile(files, ThisStep.stdout, ThisStep.out)
            /\ trace' = Append(trace, [op |-> "write", i |-> step_pc.i, stream |-> "stdout"])
            /\ Goto(NextPhase("write_stdout"))
    /\ UNCHANGED << case_frame, outputs, execution_time, case_result >>

\* run_cmd: write_output(stderr path, &output.stderr)?
WriteStderr ==
    /\ At("write_stderr")
    /\ IF ThisStep.stderr = ""
       THEN Goto(NextPhase("write_stderr")) /\ UNCHANGED << files, trace >>
       ELSE IF ~ThisStep.writes_stderr
       THEN Fail("Failed to write stderr") /\ UNCHANGED << files, trace >>
       ELSE /\ files' = WriteFile(files, ThisStep.stderr, ThisStep.err)
            /\ trace' = Append(trace, [op |-> "write", i |-> step_pc.i, stream |-> "stderr"])
            /\ Goto(NextPhase("write_stderr"))
    /\ UNCHANGED << case_frame, outputs, execution_time, case_result >>

\* run_cmd: outputs.push(output.stdout); outputs.push(output.stderr)
PushOutputs ==
    /\ At("push")
    /\ outputs' = outputs \o << ThisStep.out, ThisStep.err >>
    /\ Goto(NextPhase("push"))
    /\ UNCHANGED << case_frame, execution_time, files, trace, case_result >>

\* run_cmd: ensure!(output.status.success(), ..)
EnsureStatus ==
    /\ At("ensure")
    /\ trace' = Append(trace, [op |-> "status", i |-> step_pc.i, stream |-> ""])
    /\ IF ~ThisStep.exit_ok THEN Fail("Failed to run (status)") ELSE Goto(NextPhase("ensure"))
    /\ UNCHANGED << case_frame, outputs, execution_time, files, case_result >>

\* What a step that has run adds to execution_time
Measured_Always(step) == step.elapsed
Measured(step) == IF step.measure_time THEN step.elapsed ELSE 0

\* run_steps: if step.measure_time { execution_time += elapsed }, and the next step
MeasureTime ==
    /\ At("measure")
    /\ execution_time' = execution_time + Measured(ThisStep)
    /\ step_pc' = [step_pc EXCEPT !.i = @ + 1, !.at = "loop"]
    /\ UNCHANGED << case_frame, outputs, files, trace, case_result >>

\* run: Ok((outputs, execution_time)) => self.extract_score(&outputs)
ExtractScore ==
    /\ At("extract")
    /\ step_pc' = [step_pc EXCEPT !.at = "classify", !.score = extract_score(outputs)]
    /\ UNCHANGED << case_frame, outputs, execution_time, files, trace, case_result >>

\* run: the TestResult of the two arms of the match
RunReturn_KeepTime ==
    /\ At("classify") \/ At("err")
    /\ case_result' =
          << IF At("err")
             THEN TestResultNew(test_cases[1], Err(step_pc.e), execution_time)
             ELSE TestResultNew(test_cases[1], Classify(step_pc.score), execution_time) >>
    /\ Goto("returned")
    /\ UNCHANGED << case_frame, outputs, execution_time, files, trace >>
RunReturn ==
    /\ At("classify") \/ At("err")
    /\ case_result' =
          << IF At("err")
             THEN TestResultNew(test_cases[1], Err(step_pc.e), 0)
             ELSE TestResultNew(test_cases[1], Classify(step_pc.score), execution_time) >>
    /\ Goto("returned")
    /\ UNCHANGED << case_frame, outputs, execution_time, files, trace >>

NextCase ==
    \/ LoopHead
    \/ BuildCmd
    \/ CmdOutput
    \/ WriteStdout
    \/ WriteStderr
    \/ PushOutputs
    \/ EnsureStatus
    \/ MeasureTime
    \/ ExtractScore
    \/ RunReturn

SpecCase == InitCase /\ [][NextCase]_vars

\* What the configuration and the commands say, independently of the run
StepSucceeds(st) ==
    /\ (st.stdin = "" \/ st.opens)
    /\ st.spawns
    /\ (st.stdout = "" \/ st.writes_stdout)
    /\ (st.stderr = "" \/ st.writes_stderr)
    /\ st.exit_ok
AllStepsSucceed == \A i \in 1..Len(test_steps) : StepSucceeds(test_steps[i])

\* Every match the steps print, in step order, stdout before stderr
RECURSIVE Printed(_)
Printed(sts) ==
    IF sts = <<>> THEN <<>> ELSE Head(sts).out \o Head(sts).err \o Printed(Tail(sts))

\* The last of them whose score group is present and parses
LastParseable(caps) ==
    LET I == { i \in 1..Len(caps) : caps[i].named /\ caps[i].parses }
    IN  IF I = {} THEN NoneF
        ELSE SomeF(caps[CHOOSE i \in I : \A j \in I : j <= i].milli)

PositiveInteger(m) == m > 0 /\ m % Milli = 0

CaseResult == case_result[1]
Extracted == LastParseable(Printed(test_steps))

\* C13: the result of a case is Success(score) if and only if every step ran
\* without I/O error and exited with status zero and the extracted score is a
\* positive integer (then score is that integer); when all steps succeeded and
\* nothing parseable was matched the result is Failure("Score not found").
C13_SuccessIffPositiveInteger ==
    case_result # <<>> =>
        /\ (CaseResult.score.ok <=>
                AllStepsSucceed /\ Extracted.some /\ PositiveInteger(Extracted.milli))
        /\ (CaseResult.score.ok => CaseResult.score.v * Milli = Extracted.milli)
        /\ (AllStepsSucceed /\ ~Extracted.some =>
                CaseResult.score = Err("Score not found"))

\* C14: when all steps succeeded and the extracted score is not a positive
\* integer (it is <= 0 or it is not an integer), the result is
\* Failure("Wrong Answer"), never Success.
C14_NotPositiveIntegerIsWrongAnswer ==
    (case_result # <<>> /\ AllStepsSucceed /\ Extracted.some
        /\ ~PositiveInteger(Extracted.milli)) =>
            /\ ~CaseResult.score.ok
            /\ CaseResult.score = Err("Wrong Answer")

\* The buffers of the steps, in step order, stdout before stderr
RECURSIVE Buffers(_)
Buffers(sts) ==
    IF sts = <<>> THEN <<>> ELSE << Head(sts).out, Head(sts).err >> \o Buffers(Tail(sts))

\* C15: when all steps have run, the buffers handed to extract_score are the
\* steps' captured outputs in execution order, each step's stdout before its
\* stderr, and the extracted score is the last match of them all whose score
\* group parses: unparseable matches are skipped, and the score is None only
\* when no buffer holds a parseable match.
C15_LastParsedMatch ==
    At("classify") =>
        /\ outputs = Buffers(test_steps)
        /\ step_pc.score = Extracted
        /\ (step_pc.score = NoneF <=>
                \A b \in 1..Len(outputs) : \A k \in 1..Len(outputs[b]) :
                    ~(outputs[b][k].named /\ outputs[b][k].parses))

C15_Witness ==
    /\ At("classify")
    /\ Len(test_steps) = 2
    /\ test_steps[1].out = << Cap(1 * Milli), Cap(9 * Milli) >>
    /\ test_steps[1].err = << Cap(7 * Milli) >>
    /\ test_steps[2].out = << Cap(9 * Milli), BadCap >>
    /\ test_steps[2].err = << BadCap >>
    /\ step_pc.score = SomeF(9 * Milli)

WriteBefore(k, i, stream) ==
    \E j \in 1..(k - 1) : trace[j] = [op |-> "write", i |-> i, stream |-> stream]

\* C16: within a step the captured stdout and stderr are written to their
\* configured files before the exit status is checked; when the step exits
\* non-zero and the writes succeeded, at the moment the error is returned the
\* stderr file holds the captured stderr and the stdout file the captured stdout
\* (the two being different files).
C16_FilesWrittenBeforeStatusCheck ==
    /\ \A k \in 1..Len(trace) :
          trace[k].op = "status" =>
              LET st == test_steps[trace[k].i]
              IN  /\ (st.stdout # "" => WriteBefore(k, trace[k].i, "stdout"))
                  /\ (st.stderr # "" => WriteBefore(k, trace[k].i, "stderr"))
    /\ (At("err") /\ step_pc.e = "Failed to run (status)") =>
          /\ ~ThisStep.exit_ok
          /\ (ThisStep.stdout # "" =>
                /\ ThisStep.stdout \in DOMAIN files
                /\ (ThisStep.stdout # ThisStep.stderr => files[ThisStep.stdout] = ThisStep.out))
          /\ (ThisStep.stderr # "" =>
                /\ ThisStep.stderr \in DOMAIN files
                /\ files[ThisStep.stderr] = ThisStep.err)

C16_Witness ==
    /\ At("err")
    /\ step_pc.e = "Failed to run (status)"
    /\ step_pc.i = 2
    /\ ThisStep.stdout = "out.txt"
    /\ ThisStep.stderr = "err.txt"
    /\ files["out.txt"] = ThisStep.out
    /\ files["err.txt"] = ThisStep.err

----------------------------------------------------------------------------
(* runner.rs: the whole of run, from the compile steps to the result files.     *)
(* collect_results is taken here with a sink that can fail: print_case and      *)
(* print_summary return Result and run() hands their error to its caller.       *)

MaxCompile == 2
MaxRunCases == 2

\* A CompileStep with what it meets when compile reaches it: its os_regex is
\* absent, matches the running OS, does not match it or is not a regex, and its
\* command runs to exit status 0, cannot be spawned or exits non-zero
CompileSteps ==
    [ os_regex : {"none", "match", "nomatch", "invalid"},
      does : {"ok", "spawn_fail", "exit_nonzero"} ]
CompileTrue == [os_regex |-> "none", does |-> "ok"]

\* echo "Score = 100" under a pattern without the group `score`
EchoNoGroup == StepsOk(<< << NoGroupCap >>, <<>> >>, 1)

\* What the test steps produce under the score pattern of the settings
SolversUnder(re, seeds) ==
    IF re = "unnamed"
    THEN { [s \in seeds |-> IF s \in F THEN RunFalse ELSE EchoNoGroup] : F \in SUBSET seeds }
    ELSE Solvers(seeds)

EngineAtStart ==
    /\ test_cases = <<>>
    /\ submitted = 0
    /\ queue = <<>>
    /\ running = {}
    /\ tx_count = 0
    /\ channel = <<>>
    /\ cur = <<>>
    /\ results = <<>>
    /\ printer = [testcase_count |-> 0, completed_count |-> 0,
                  score_sum |-> 0, relative_score_sum |-> 0]
    /\ stats = <<>>
    /\ send_order = <<>>
    /\ on_case_log = <<>>
    /\ on_case_done = 0
    /\ summary_log = <<>>

\* Runs that differ in their compile steps, with one thread and at most one case
InitRunCompile ==
    /\ compile_steps \in SeqsUpTo(CompileSteps, MaxCompile)
    /\ args \in { [PlainArgs(FALSE) EXCEPT !.no_compile = nc] : nc \in BOOLEAN }
    /\ settings \in [ start_seed : {0}, end_seed : {0, 1}, threads : {1},
                      objective : {"Max"}, score_regex : {"named"} ]
    /\ solver = [s \in SeedsOf(settings) |-> EchoScore100]

\* Runs that differ in their settings, flags and solvers, with one compile step
InitRunSettings ==
    /\ compile_steps = << CompileTrue >>
    /\ args \in [ shuffle : {FALSE}, no_compile : {FALSE},
                  freeze_best_scores : BOOLEAN, no_result_file : BOOLEAN ]
    /\ settings \in { st \in [ start_seed : AllSeeds,
                               end_seed : 0 .. (MaxCases + 1),
                               threads : 0 .. (MaxThreads - 1),
                               objective : Objectives,
                               score_regex : ScoreRegexes ] :
                          st.end_seed - st.start_seed <= MaxRunCases }
    /\ solver \in SolversUnder(settings.score_regex, SeedsOf(settings))

InitRun ==
    /\ pc = "compile"
    /\ InitRunCompile \/ InitRunSettings
    /\ best_scores = StoredBest
    /\ cpus = MaxThreads
    /\ EngineAtStart
    /\ compile_log = <<>>
    /\ out_dir = NoFiles
    /\ SingleIdle
    /\ UnitIdle

engine_state == << test_cases, submitted, queue, running, tx_count, channel, cur,
                  results, printer, stats, history >>

\* compilie.rs: the os_regex filter of compile
OsFilterSkips_NoMatchOnly(step) == step.os_regex = "nomatch"
OsFilterSkips(step) == step.os_regex \in {"nomatch", "invalid"}

\* compilie.rs: cmd.status()? fails, or !status.success()
CompileFails_SpawnOnly(step) == step.does = "spawn_fail"
CompileFails(step) == step.does # "ok"

\* compile: one iteration of `for step in steps`
CompileNext ==
    /\ pc = "compile"
    /\ ~args.no_compile
    /\ Len(compile_log) < Len(compile_steps)
    /\ LET k == Len(compile_log) + 1
           step == compile_steps[k]
       IN  IF OsFilterSkips(step)
           THEN /\ compile_log' = Append(compile_log, [i |-> k, ran |-> FALSE])
                /\ pc' = pc
           ELSE /\ compile_log' = Append(compile_log, [i |-> k, ran |-> TRUE])
                /\ pc' = IF CompileFails(step) THEN "compile_failed" ELSE pc
    /\ UNCHANGED << config, engine_state, compile_steps, out_dir, single_vars, unit_vars >>

\* run: `if !args.no_compile { compile(..)? }` is over
CompileReturn ==
    /\ pc = "compile"
    /\ args.no_compile \/ Len(compile_log) = Len(compile_steps)
    /\ pc' = "validate"
    /\ UNCHANGED << config, engine_state, run_vars, single_vars, unit_vars >>

\* print_case returns Err: collect_results and run() return it
OnCaseFails ==
    /\ pc = "on_case"
    /\ pc' = "sink_failed"
    /\ UNCHANGED << config, engine_state, run_vars, single_vars, unit_vars >>

\* print_summary returns Err: collect_results and run() return it
SummaryFails ==
    /\ pc = "summary"
    /\ pc' = "sink_failed"
    /\ UNCHANGED << config, engine_state, run_vars, single_vars, unit_vars >>

\* let stats = runner.run()?: run goes on only with Ok(stats)
RunOk_IgnoreError(p) == p \in {"done", "sink_failed"}
RunOk(p) == p = "done"

\* The loop over stats.results: best_scores.insert(seed, score) where is_best
UpdatedBest_AnySuccess(bs, rs) ==
    [ s \in DOMAIN bs |->
        IF \E i \in 1..Len(rs) : rs[i].test_case.seed = s /\ rs[i].score.ok
        THEN (CHOOSE r \in { rs[i] : i \in 1..Len(rs) } : r.test_case.seed = s).score.v
        ELSE bs[s] ]
UpdatedBest(bs, rs) ==
    [ s \in DOMAIN bs |->
        IF \E i \in 1..Len(rs) :
              /\ rs[i].test_case.seed = s
              /\ rs[i].score.ok
              /\ is_best(rs[i].test_case, rs[i].score.v)
        THEN (CHOOSE r \in { rs[i] : i \in 1..Len(rs) } : r.test_case.seed = s).score.v
        ELSE bs[s] ]

UpdateBestScores ==
    /\ RunOk(pc)
    /\ best_scores' = UpdatedBest(best_scores, results)
    /\ pc' = "save_best_scores"
    /\ UNCHANGED << settings, args, solver, cpus, engine_state, run_vars,
                    single_vars, unit_vars >>

\* if !args.freeze_best_scores { io::save_best_scores(..)? }
SaveBestScores ==
    /\ pc = "save_best_scores"
    /\ out_dir' = IF args.freeze_best_scores THEN out_dir
                  ELSE [out_dir EXCEPT !.best_scores = << best_scores >>]
    /\ pc' = "save_logs"
    /\ UNCHANGED << config, engine_state, compile_steps, compile_log,
                    single_vars, unit_vars >>

\* if !args.no_result_file { save_summary_log(..)?; save_json_log(..)? }
SaveLogs ==
    /\ pc = "save_logs"
    /\ out_dir' = IF args.no_result_file THEN out_dir
                  ELSE [out_dir EXCEPT !.summary_log = @ + 1, !.json_log = @ + 1]
    /\ pc' = "finished"
    /\ UNCHANGED << config, engine_state, compile_steps, compile_log,
                    single_vars, unit_vars >>

NextRun ==
    \/ CompileNext
    \/ CompileReturn
    \/ Reject
    \/ BuildCases
    \/ Submit
    \/ StartCollect
    \/ WorkerTake
    \/ \E tc \in running : WorkerFinish(tc)
    \/ Recv
    \/ OnCase
    \/ OnCaseFails
    \/ RecvClosed
    \/ Sort
    \/ BuildStats
    \/ Summary
    \/ SummaryFails
    \/ UpdateBestScores
    \/ SaveBestScores
    \/ SaveLogs

SpecRun == InitRun /\ [][NextRun]_vars

InvalidConfig ==
    \/ settings.start_seed >= settings.end_seed
    \/ settings.score_regex = "invalid"
    \/ settings.score_regex = "unnamed"

\* C17: with an invalid configuration (an empty seed range, a score regex that
\* does not compile, a score regex without the named group `score`) the run
\* never gets to build or dispatch a test case: it is still compiling or
\* validating, or it has failed.
C17_InvalidConfigRejected ==
    InvalidConfig =>
        /\ pc \in {"compile", "compile_failed", "validate", "rejected"}
        /\ test_cases = <<>>
        /\ submitted = 0

Applicable(k) == ~args.no_compile /\ compile_steps[k].os_regex \in {"none", "match"}

\* C18: the compile steps are gone through in configured order, each once, and
\* before the parallel phase: a test case is built or dispatched only when compile
\* is over (every step that compile was to run has exited with status 0), and a
\* step that cannot be spawned or exits non-zero is the last step run: the run
\* has failed and no test case exists.
C18_CompileBeforeDispatch ==
    /\ Len(compile_log) <= Len(compile_steps)
    /\ \A k \in 1..Len(compile_log) :
          /\ compile_log[k].i = k
          /\ compile_log[k].ran <=> Applicable(k)
          /\ (compile_log[k].ran /\ compile_steps[k].does # "ok") =>
                /\ k = Len(compile_log)
                /\ pc = "compile_failed"
    /\ (pc = "compile_failed") =>
          /\ compile_log # <<>>
          /\ compile_log[Len(compile_log)].ran
          /\ compile_steps[Len(compile_log)].does # "ok"
    /\ (pc \in {"compile", "compile_failed"}) =>
          /\ test_cases = <<>>
          /\ submitted = 0
          /\ queue = <<>>
          /\ running = {}
          /\ send_order = <<>>
    /\ (pc \notin {"compile", "compile_failed"}) =>
          \A k \in 1..Len(compile_steps) :
              Applicable(k) =>
                  /\ k <= Len(compile_log)
                  /\ compile_log[k].ran
                  /\ compile_steps[k].does = "ok"

C18_Witness ==
    /\ submitted = 1
    /\ Len(compile_steps) = 2
    /\ Len(compile_log) = 2
    /\ compile_log[1].ran
    /\ compile_log[2].ran
    /\ compile_steps[2].os_regex = "match"

----------------------------------------------------------------------------
(* io.rs: the best-score store.  The file is missing, is not a JSON object  *)
(* of unsigned integers, or is such an object: a map from key strings to    *)
(* u64 values (serde_json keeps the last of two equal keys).  The map in    *)
(* memory is a function from its seeds to their non-zero scores.            *)

MaxEntries == 3

IsDigit(c) == \E d \in 1..Len(DigitChars) : DigitChars[d] = c
DigitOf(c) == (CHOOSE d \in 1..Len(DigitChars) : DigitChars[d] = c) - 1

\* u64::MAX, as its decimal digits
U64MaxDigits ==
    << "1", "8", "4", "4", "6", "7", "4", "4", "0", "7",
       "3", "7", "0", "9", "5", "5", "1", "6", "1", "5" >>

RECURSIVE StripZeros(_)
StripZeros(s) == IF s # <<>> /\ s[1] = "0" THEN StripZeros(Tail(s)) ELSE s

\* a > b for two digit strings of the same length
RECURSIVE DigitsGreater(_, _)
DigitsGreater(a, b) ==
    IF a = <<>> THEN FALSE
    ELSE IF DigitOf(a[1]) # DigitOf(b[1]) THEN DigitOf(a[1]) > DigitOf(b[1])
    ELSE DigitsGreater(Tail(a), Tail(b))

\* the checked multiply-and-add of the parse overflows
Overflows(digits) ==
    LET sig == StripZeros(digits)
    IN  \/ Len(sig) > Len(U64MaxDigits)
        \/ Len(sig) = Len(U64MaxDigits) /\ DigitsGreater(sig, U64MaxDigits)

RECURSIVE DigitsValue(_)
DigitsValue(s) ==
    IF s = <<>> THEN 0
    ELSE 10 * DigitsValue(SubSeq(s, 1, Len(s) - 1)) + DigitOf(s[Len(s)])

\* key.parse::<u64>(): an optional '+', then one or more decimal digits.  The
\* model's keys that parse are below 2^31.
ParseU64(s) ==
    LET digits == IF s # <<>> /\ s[1] = "+" THEN Tail(s) ELSE s
    IN  IF digits # <<>> /\ (\A i \in 1..Len(digits) : IsDigit(digits[i]))
           /\ ~Overflows(digits)
        THEN [ok |-> TRUE, v |-> DigitsValue(digits)]
        ELSE [ok |-> FALSE, v |-> 0]

MissingFile == [kind |-> "missing", entries |-> <<>>]
MalformedFile == [kind |-> "malformed", entries |-> <<>>]
ObjectFile(entries) == [kind |-> "object", entries |-> entries]

\* The entries that pass the flat_map of load_best_scores
Kept_KeepZero(entries) ==
    { k \in DOMAIN entries : ParseU64(k).ok }
Kept(entries) ==
    { k \in DOMAIN entries : ParseU64(k).ok /\ entries[k] # 0 }

\* load_best_scores: the maps it can return, from the (seed, value) pairs of the
\* kept entries.  Two kept keys that parse to one seed are inserted in the
\* iteration order of a HashMap, which is arbitrary: either value can be the one
\* that stays.
load_best_scores(file) ==
    CASE file.kind = "missing" -> { Ok(<< >>) }
      [] file.kind = "malformed" -> { Err("Failed to parse json") }
      [] OTHER ->
            UNION { { Ok(m) : m \in { f \in [ { p[1] : p \in pairs } ->
                                                { p[2] : p \in pairs } ] :
                                        \A s \in DOMAIN f : << s, f[s] >> \in pairs } } :
                    pairs \in { { << ParseU64(k).v, file.entries[k] >> :
                                     k \in Kept(file.entries) } } }

\* save_best_scores: the BTreeMap<String, u64> written as a JSON object
save_best_scores(m) ==
    ObjectFile([ k \in { Format04(s) : s \in DOMAIN m } |->
                   m[CHOOSE s \in DOMAIN m : Format04(s) = k] ])

StoreKeys ==
    { << "0", "0", "0", "4" >>, << "4" >>, << "+", "4" >>,
      << "0", "0", "4", "2" >>, << "1", "2", "3", "4", "5" >>,
      << >>, << "+" >>, << "-", "4" >>, << "4", "x" >>, << "a", "b", "c" >>,
      U64MaxDigits \o << "0" >>,
      << "1", "8", "4", "4", "6", "7", "4", "4", "0", "7",
         "3", "7", "0", "9", "5", "5", "1", "6", "1", "6" >> }
StoreValues == { 0, 1, 100 }
StoreFiles ==
    { MissingFile, MalformedFile } \cup
    { ObjectFile(e) : e \in UNION { [K -> StoreValues] :
                          K \in { K \in SUBSET StoreKeys : Cardinality(K) <= MaxEntries } } }
\* The maps of seed to positive score
StoreMaps ==
    UNION { [S -> StoreValues \ {0}] : S \in SUBSET UnitSeeds }

InitStore ==
    /\ EngineIdle
    /\ test_cases = <<>>
    /\ RunIdle
    /\ SingleIdle
    /\ \/ call \in [ fn : {"load_best_scores"}, file : StoreFiles ]
       \/ call \in [ fn : {"save_best_scores"}, m : StoreMaps ]
    /\ ret = <<>>
    /\ writer = <<>>
    /\ GitIdle

\* load_best_scores(path) on a file of the bounded set
test_load_best_scores ==
    /\ call.fn = "load_best_scores"
    /\ ret = <<>>
    /\ \E r \in load_best_scores(call.file) : ret' = << r >>
    /\ UNCHANGED << engine, run_vars, single_vars, call, writer, git_vars >>

\* save_best_scores(path, m), then load_best_scores(path)
test_save_then_load ==
    /\ call.fn = "save_best_scores"
    /\ ret = <<>>
    /\ \E r \in load_best_scores(save_best_scores(call.m)) : ret' = << r >>
    /\ UNCHANGED << engine, run_vars, single_vars, call, writer, git_vars >>

NextStore == test_load_best_scores \/ test_save_then_load

SpecStore == InitStore /\ [][NextStore]_vars

\* The entries of a file that are valid: the key parses and the value is not zero
ValidEntries(file) ==
    { k \in DOMAIN file.entries : ParseU64(k).ok /\ file.entries[k] # 0 }

\* A map in memory as its set of <<seed, score>> pairs
Pairs(m) == { << s, m[s] >> : s \in DOMAIN m }

Loaded == call.fn = "load_best_scores" /\ ret # <<>>
SavedAndLoaded == call.fn = "save_best_scores" /\ ret # <<>>

\* C21, as stated: loading drops exactly the entries whose key does not parse as
\* an unsigned integer or whose value is zero and keeps every other entry (the
\* loaded map is the set of the valid entries, each under its parsed key); a
\* missing file loads as the empty map; load(save(m)) = m.
C21_LoadKeepsEveryValidEntry ==
    /\ (Loaded /\ call.file.kind = "missing") => ret[1] = Ok(<< >>)
    /\ (Loaded /\ call.file.kind = "object") =>
          /\ ret[1].ok
          /\ Pairs(ret[1].v) =
                { << ParseU64(k).v, call.file.entries[k] >> : k \in ValidEntries(call.file) }
    /\ SavedAndLoaded => ret[1] = Ok(call.m)

\* C21, amended: loading drops every entry whose key does not parse or whose
\* value is zero; the loaded map has exactly the seeds of the other entries, and
\* the score of a seed is the value of one of the entries whose key parses to
\* that seed (of the only one, when the keys of the file parse to different
\* seeds); a missing file loads as the empty map; load(save(m)) = m.
C21_LoadBestScores ==
    /\ (Loaded /\ call.file.kind = "missing") => ret[1] = Ok(<< >>)
    /\ (Loaded /\ call.file.kind = "object") =>
          /\ ret[1].ok
          /\ DOMAIN ret[1].v = { ParseU64(k).v : k \in ValidEntries(call.file) }
          /\ \A s \in DOMAIN ret[1].v :
                \E k \in ValidEntries(call.file) :
                    ParseU64(k).v = s /\ call.file.entries[k] = ret[1].v[s]
          /\ (\A j, k \in ValidEntries(call.file) : ParseU64(j).v = ParseU64(k).v => j = k) =>
                Pairs(ret[1].v) =
                  { << ParseU64(k).v, call.file.entries[k] >> : k \in ValidEntries(call.file) }
    /\ SavedAndLoaded => ret[1] = Ok(call.m)

C21_Witness ==
    /\ Loaded
    /\ call.file.kind = "object"
    /\ \E j, k, l \in DOMAIN call.file.entries :
          /\ ~ParseU64(j).ok /\ call.file.entries[j] # 0
          /\ ParseU64(k).ok /\ call.file.entries[k] = 0
          /\ l \in ValidEntries(call.file)
          /\ ParseU64(l).v \in DOMAIN ret[1].v

----------------------------------------------------------------------------
(* The best scores after a run *)

PostRun == pc \in {"save_best_scores", "save_logs", "finished"}

\* The score is at least as good as the reference, or there is no reference
AtLeastAsGood(new, old, objective) ==
    \/ old = None
    \/ objective = "Max" /\ new >= old
    \/ objective = "Min" /\ new <= old

\* C22: the best-score entry of a seed differs from the one before the run only
\* when the run is over and the result of that seed is a Success whose score is
\* at least as good as the entry before the run (or there was none), and it is
\* then that score; the entry of a seed whose result is a Failure is the one
\* before the run (none, if there was none).  The file, once written, holds
\* these entries.
C22_BestScoreChangedOnlyByBestSuccess ==
    /\ \A s \in AllSeeds :
          best_scores[s] # StoredBest[s] =>
              /\ PostRun
              /\ \E i \in 1..Len(results) :
                    /\ results[i].test_case.seed = s
                    /\ results[i].score.ok
                    /\ results[i].score.v = best_scores[s]
                    /\ AtLeastAsGood(results[i].score.v, StoredBest[s], settings.objective)
    /\ PostRun =>
          \A i \in 1..Len(results) :
              ~results[i].score.ok =>
                  best_scores[results[i].test_case.seed] =
                      StoredBest[results[i].test_case.seed]
    /\ out_dir.best_scores # <<>> =>
          /\ PostRun
          /\ out_dir.best_scores[1] = best_scores

C22_Witness ==
    /\ pc = "finished"
    /\ out_dir.best_scores # <<>>
    /\ \E i, j \in 1..Len(results) :
          /\ results[i].score.ok
          /\ best_scores[results[i].test_case.seed] # StoredBest[results[i].test_case.seed]
          /\ ~results[j].score.ok
          /\ StoredBest[results[j].test_case.seed] = None
          /\ best_scores[results[j].test_case.seed] = None

----------------------------------------------------------------------------
(* printer.rs: JsonPrinter, driven as in test_json_printer: print_case on  *)
(* each result of a sequence, in the order given, then print_summary.      *)
(* `ret` holds the values the calls have returned so far.                  *)

MaxJsonCases == 3

\* The JsonRecord of print_case, built after completed_count += 1
JsonRecord_ProgressBySeed(count, result) ==
    [ progress |-> result.test_case.seed + 1,
      seed |-> result.test_case.seed,
      score |-> IF result.score.ok THEN result.score.v ELSE 0,
      relative_score |-> IF result.relative_score.ok THEN result.relative_score.v ELSE 0,
      execution_time |-> result.execution_time,
      error_message |-> IF result.score.ok THEN "" ELSE result.score.e ]
JsonRecord(count, result) ==
    [ progress |-> count,
      seed |-> result.test_case.seed,
      score |-> IF result.score.ok THEN result.score.v ELSE 0,
      relative_score |-> IF result.relative_score.ok THEN result.relative_score.v ELSE 0,
      execution_time |-> result.execution_time,
      error_message |-> IF result.score.ok THEN "" ELSE result.score.e ]

\* The results handed to the printer: those of gen_test_results, with the
\* failures the engine produces
JsonSeeds == {0, 1, 2}
JsonScores == { Ok(1000), Ok(500), Err("Wrong Answer"), Err("Score not found") }
JsonResults ==
    { TestResultNew(TestCaseNew(s, 100, "Max"), sc, IF sc.ok THEN 1234 ELSE 1) :
        s \in JsonSeeds, sc \in JsonScores }

InitJson ==
    /\ EngineIdle
    /\ test_cases = <<>>
    /\ RunIdle
    /\ SingleIdle
    /\ call \in [ fn : {"json_printer"}, results : SeqsUpTo(JsonResults, MaxJsonCases) ]
    /\ ret = <<>>
    /\ writer = <<>>
    /\ GitIdle

json_frame == << pc, config, test_cases, submitted, queue, running, tx_count, channel,
                cur, results, stats, history, run_vars, single_vars, call, git_vars >>

\* printer.print_case(&mut buf, result) on the next result of the sequence
print_case ==
    /\ call.fn = "json_printer"
    /\ Len(ret) < Len(call.results)
    /\ printer' = [printer EXCEPT !.completed_count = @ + 1]
    /\ writer' = Append(writer, JsonRecord(printer.completed_count + 1,
                                           call.results[Len(ret) + 1]))
    /\ ret' = Append(ret, "Ok")
    /\ UNCHANGED json_frame

\* printer.print_summary(&mut buf, &stats): do nothing
print_summary ==
    /\ call.fn = "json_printer"
    /\ Len(ret) = Len(call.results)
    /\ ret' = Append(ret, "Ok")
    /\ UNCHANGED << json_frame, printer, writer >>

NextJson == print_case \/ print_summary

SpecJson == InitJson /\ [][NextJson]_vars

\* The number of print_case calls made so far
OnCaseCalls == IF Len(ret) <= Len(call.results) THEN Len(ret) ELSE Len(call.results)

\* C23: the sink has written exactly one record per print_case call made and none
\* for the summary; the k-th record carries progress k and the seed of the k-th
\* result handed over, whatever the order of the seeds; the record of a Failure
\* has score 0, relative_score 0 and a non-empty error_message, the record of a
\* Success has its score and an empty error_message.
C23_JsonOneRecordPerCase ==
    call.fn = "json_printer" =>
        /\ Len(writer) = OnCaseCalls
        /\ \A k \in 1..Len(writer) :
              /\ writer[k].progress = k
              /\ writer[k].seed = call.results[k].test_case.seed
              /\ ~call.results[k].score.ok =>
                    /\ writer[k].score = 0
                    /\ writer[k].relative_score = 0
                    /\ writer[k].error_message # ""
              /\ call.results[k].score.ok =>
                    /\ writer[k].score = call.results[k].score.v
                    /\ writer[k].error_message = ""

C23_Witness ==
    /\ call.fn = "json_printer"
    /\ Len(call.results) = 3
    /\ Len(ret) = 4
    /\ call.results[1].test_case.seed = 2
    /\ call.results[2].test_case.seed = 0
    /\ call.results[3].test_case.seed = 1
    /\ ~call.results[1].score.ok
    /\ call.results[2].score.ok

----------------------------------------------------------------------------
(* The pool: which case is where *)

\* How many elements of a sequence of cases or results are of the seed
CasesOf(seq, seed) == Cardinality({ j \in 1..Len(seq) : seq[j].seed = seed })
ResultsOf(seq, seed) == Cardinality({ j \in 1..Len(seq) : seq[j].test_case.seed = seed })
SeedsIn(seq, seed) == Cardinality({ j \in 1..Len(seq) : seq[j] = seed })
RunningOf(seed) == Cardinality({ tc \in running : tc.seed = seed })

\* C24: a case that has been submitted is at every moment in exactly one place:
\* waiting in the queue (once), being run by one pool thread, or done with its
\* result sent once; so it is taken from the queue once, by one thread, and one
\* result is sent for it.  Each sent result is in the channel or with the
\* collector exactly once.  When the run is over every case has had its one
\* result sent: none is skipped.
C24_EachCaseRunExactlyOnce ==
    /\ \A i \in 1..Len(test_cases) :
          LET s == test_cases[i].seed
              sent == SeedsIn(send_order, s)
          IN  /\ CasesOf(queue, s) + RunningOf(s) + sent = (IF i <= submitted THEN 1 ELSE 0)
              /\ ResultsOf(channel, s) + ResultsOf(cur, s) + ResultsOf(results, s) = sent
              /\ pc = "done" => sent = 1
    /\ Len(send_order) <= Len(test_cases)
    /\ \A k \in 1..Len(send_order) :
          \E i \in 1..Len(test_cases) : test_cases[i].seed = send_order[k]

C24_Witness ==
    /\ pc = "done"
    /\ Len(test_cases) = 3
    /\ ThreadCnt = 2
    /\ send_order[1] # test_cases[1].seed

----------------------------------------------------------------------------
(* The size of the pool *)

\* P: threads when it is positive, the number of CPUs otherwise
PoolSize == IF settings.threads > 0 THEN settings.threads ELSE cpus

\* C25: never more than P cases are being run at once; with P = 1 the cases are
\* run one after another, in the order in which they were submitted: at most one
\* is running, and the results sent so far are those of the first cases of
\* test_cases, in that order.
C25_AtMostPConcurrent ==
    /\ Cardinality(running) <= PoolSize
    /\ PoolSize = 1 =>
          /\ Len(send_order) <= Len(test_cases)
          /\ \A k \in 1..Len(send_order) : send_order[k] = test_cases[k].seed
          /\ \A tc \in running :
                Len(send_order) < Len(test_cases) /\ tc = test_cases[Len(send_order) + 1]

\* P = 2 is reached with two cases running, and with threads = 0 (P is the CPU count)
C25_Witness ==
    /\ Cardinality(running) = 2
    /\ settings.threads = 0
    /\ queue # <<>>

----------------------------------------------------------------------------
(* One case: failing steps and the execution time *)

\* The first step that fails, or one past the last step when none does
FirstFailing ==
    LET F == { i \in 1..Len(test_steps) : ~StepSucceeds(test_steps[i]) }
    IN  IF F = {} THEN Len(test_steps) + 1 ELSE CHOOSE i \in F : \A j \in F : i <= j

\* C26: when a step fails (its stdin file does not open, its command cannot be
\* spawned, an output file cannot be written, or it exits non-zero) no later
\* step is run: the loop never gets past that step, nothing of a later step is
\* written, checked or pushed; the score extractor is not applied; and the
\* result is a Failure with execution_time 0, whatever time the earlier steps
\* have added.
C26_FailingStepShortCircuits ==
    ~AllStepsSucceed =>
        /\ step_pc.i <= FirstFailing
        /\ \A k \in 1..Len(trace) : trace[k].i <= FirstFailing
        /\ Len(outputs) <= 2 * FirstFailing
        /\ ~At("extract") /\ ~At("classify")
        /\ step_pc.score = NoneF
        /\ case_result # <<>> =>
              /\ ~CaseResult.score.ok
              /\ CaseResult.score.e \notin {"Wrong Answer", "Score not found"}
              /\ CaseResult.execution_time = 0

C26_Witness ==
    /\ case_result # <<>>
    /\ Len(test_steps) = 2
    /\ FirstFailing = 2
    /\ test_steps[1].measure_time
    /\ execution_time > 0
    /\ CaseResult.execution_time = 0

\* The elapsed times of the steps whose measure_time flag is set, added up
RECURSIVE SumFlagged(_)
SumFlagged(sts) ==
    IF sts = <<>> THEN 0
    ELSE (IF Head(sts).measure_time THEN Head(sts).elapsed ELSE 0) + SumFlagged(Tail(sts))

\* C27: when every step has succeeded the execution_time of the result is the
\* sum of the elapsed times of the steps whose measure_time flag is true, whether
\* the result is a Success, Wrong Answer or Score not found; it is 0 when no
\* step has the flag.
C27_ExecutionTimeIsSumOfFlagged ==
    (case_result # <<>> /\ AllStepsSucceed) =>
        /\ CaseResult.execution_time = SumFlagged(test_steps)
        /\ (\A i \in 1..Len(test_steps) : ~test_steps[i].measure_time) =>
              CaseResult.execution_time = 0

C27_Witness ==
    /\ case_result # <<>>
    /\ AllStepsSucceed
    /\ Len(test_steps) = 2
    /\ test_steps[1].measure_time
    /\ ~test_steps[2].measure_time
    /\ test_steps[1].elapsed # test_steps[2].elapsed
    /\ CaseResult.score.e = "Wrong Answer"

----------------------------------------------------------------------------
(* multi.rs: a job that panics.  The pool thread unwinds: the closure's    *)
(* test case and tx clone are dropped, nothing is sent, and the pool        *)
(* replaces the thread.  Nothing in start_tests or collect_results asks the *)
(* pool whether a job has panicked.                                         *)

WorkerPanic(tc) ==
    /\ tc \in running
    /\ running' = running \ {tc}
    /\ tx_count' = tx_count - 1
    /\ UNCHANGED << outside, pc, config, test_cases, submitted, queue, channel, cur,
                    results, printer, stats, history >>

NextPanic ==
    \/ Next
    \/ \E tc \in running : WorkerPanic(tc)

SpecPanic == Init /\ [][NextPanic]_vars

\* C28: a report, once built, holds the result of every case of the run: a run
\* in which a job has panicked does not return a report without that case.
C28_NoReportWithoutACase ==
    stats # <<>> =>
        \A i \in 1..Len(test_cases) :
            \E k \in 1..Len(stats[1].results) :
                stats[1].results[k].test_case.seed = test_cases[i].seed

----------------------------------------------------------------------------
(* Runs in which the solver of at most one seed never terminates *)

HangSolvers(seeds) ==
    { [s \in seeds |-> IF s = h THEN NeverExits ELSE EchoScore100] : h \in seeds \cup {-1} }

InitHang ==
    /\ pc = "validate"
    /\ settings \in [ start_seed : StartSeeds,
                      end_seed : 0 .. MaxCases,
                      threads : 0 .. (MaxThreads - 1),
                      objective : {"Max"},
                      score_regex : {"named", "invalid"} ]
    /\ args \in { PlainArgs(sh) : sh \in BOOLEAN }
    /\ best_scores = StoredBest
    /\ solver \in HangSolvers(SeedsOf(settings))
    /\ cpus = MaxThreads
    /\ EngineAtStart
    /\ RunIdle
    /\ SingleIdle
    /\ UnitIdle

\* The operating system schedules every runnable thread; a thread whose solver
\* never exits is not runnable
FairHang == InitHang /\ [][Next]_vars /\ WF_vars(MainThread) /\ WF_vars(PoolThreads)

\* The seeds whose solver never terminates
Hung == { s \in SeedsOf(settings) : solver[s] = NeverExits }
HungRunning == \E tc \in running : tc.seed \in Hung

\* The run has not returned and will not: no report, no summary
NeverReturns ==
    /\ pc \notin {"sort", "stats", "summary", "done"}
    /\ stats = <<>>
    /\ summary_log = <<>>
    /\ \A k \in 1..Len(send_order) : send_order[k] \notin Hung

\* With one thread, nothing submitted after the hung case is run
NothingAfterHung ==
    \A i, j \in 1..Len(test_cases) :
        (i < j /\ test_cases[i].seed \in Hung) =>
            /\ test_cases[j] \notin running
            /\ \A k \in 1..Len(send_order) : send_order[k] # test_cases[j].seed

\* C29: in a run of a valid configuration in which the solver of one seed never
\* terminates, the worker that runs it stays blocked (the case is never taken
\* from it) and the run never returns: the receive loop never ends, no report is
\* built and on_summary is never invoked.  With P >= 2 the hung case is
\* eventually started and every other case is eventually run and delivered to
\* on_case; with P = 1 no case submitted after the hung one is ever run.
C29_HungSolverBlocksRun ==
    /\ []((Hung # {}) => NeverReturns)
    /\ [][\A tc \in running : tc.seed \in Hung => tc \in running']_vars
    /\ []((Hung # {} /\ PoolSize = 1) => NothingAfterHung)
    /\ (pc = "submit" /\ Hung # {} /\ PoolSize >= 2) ~>
          /\ HungRunning
          /\ \A s \in SeedsOf(settings) \ Hung : Delivered(s)

C29_Witness ==
    /\ Hung # {}
    /\ PoolSize = 2
    /\ N = MaxCases
    /\ HungRunning
    /\ on_case_done = N - 1
    /\ pc = "collect"
    /\ channel = <<>>
    /\ test_cases[1].seed \in Hung

----------------------------------------------------------------------------
(* One case: steps with an OS filter *)

\* The step's OS filter is a regex that does not match the running OS
Filtered(st) == st.os_regex = "nomatch"
Unfiltered == SelectSeq(test_steps, LAMBDA st : ~Filtered(st))

\* C30: a step whose OS filter does not match the running OS is skipped: its
\* program is never spawned (the run never gets past the head of that step),
\* it leaves no write and no status check, it adds no buffer and no time and
\* raises no error, and the steps after it run: the case ends as the steps
\* without the filtered ones end, with two buffers per such step.  A malformed
\* filter raises no error either.
C30_OsFilteredStepSkipped ==
    /\ (step_pc.i \in 1..Len(test_steps) /\ Filtered(ThisStep)) =>
          step_pc.at \in {"loop", "build_cmd"}
    /\ \A k \in 1..Len(trace) : ~Filtered(test_steps[trace[k].i])
    /\ (case_result # <<>>
          /\ \A i \in 1..Len(test_steps) : Filtered(test_steps[i]) \/ test_steps[i].exit_ok) =>
          /\ Len(outputs) = 2 * Len(Unfiltered)
          /\ CaseResult.execution_time = SumFlagged(Unfiltered)
          /\ CaseResult.score.ok \/ CaseResult.score.e = "Score not found"
    /\ (case_result # <<>> /\ ~CaseResult.score.ok) =>
          \E i \in 1..Len(test_steps) :
              ~Filtered(test_steps[i])

----------------------------------------------------------------------------
(* compilie.rs: the OS filter of the compile steps *)

Skipped(k) == compile_steps[k].os_regex \in {"nomatch", "invalid"}
CompileOver == pc \notin {"compile", "compile_failed"}

\* C31: a compile step whose OS regex does not match the running OS or is not a
\* regex is passed over: its program is not run and the compile phase does not
\* fail on it, whatever its program would have done; every other step reached is
\* run, the steps after a skipped one included; and compile succeeds exactly when
\* every step that is not skipped exits with status zero: it has failed only on
\* a step that is not skipped, and it is over only when all of those have run
\* and exited with zero.
C31_CompileOsFilter ==
    ~args.no_compile =>
        /\ \A k \in 1..Len(compile_log) : compile_log[k].ran <=> ~Skipped(k)
        /\ \A k \in 1..Len(compile_log) :
              (Skipped(k) /\ k = Len(compile_log)) => pc # "compile_failed"
        /\ (pc = "compile_failed") =>
              \E k \in 1..Len(compile_log) :
                  ~Skipped(k) /\ compile_log[k].ran /\ compile_steps[k].does # "ok"
        /\ CompileOver =>
              /\ Len(compile_log) = Len(compile_steps)
              /\ \A k \in 1..Len(compile_steps) :
                    ~Skipped(k) => compile_log[k].ran /\ compile_steps[k].does = "ok"
        /\ (\A k \in 1..Len(compile_steps) : ~Skipped(k) => compile_steps[k].does = "ok")
              => pc # "compile_failed"

C31_Witness ==
    /\ ~args.no_compile
    /\ CompileOver
    /\ submitted = 1
    /\ Len(compile_steps) = 2
    /\ compile_steps[1].os_regex = "invalid"
    /\ compile_steps[1].does = "exit_nonzero"
    /\ compile_steps[2].os_regex = "none"
    /\ ~compile_log[1].ran
    /\ compile_log[2].ran

----------------------------------------------------------------------------
(* single.rs: the output files of a case that fails *)

\* The path and the contents of a write recorded in the trace
PathOf(w) == IF w.stream = "stdout" THEN test_steps[w.i].stdout ELSE test_steps[w.i].stderr
ContentsOf(w) == IF w.stream = "stdout" THEN test_steps[w.i].out ELSE test_steps[w.i].err
Writes == { k \in 1..Len(trace) : trace[k].op = "write" }
LastWrite(path) ==
    CHOOSE k \in Writes :
        /\ PathOf(trace[k]) = path
        /\ \A j \in Writes : PathOf(trace[j]) = path => j <= k
StepFailed == step_pc.e # ""

\* C32: when a step of a case has failed, before and after run has returned the
\* Failure, every file a step of the case wrote is there with the contents of
\* the last write to its path, and the files of another case are there with
\* their contents: nothing is removed or rolled back.
C32_NoCleanupOnFailure ==
    StepFailed =>
        /\ \A k \in Writes :
              /\ PathOf(trace[k]) \in DOMAIN files
              /\ files[PathOf(trace[k])] = ContentsOf(trace[LastWrite(PathOf(trace[k]))])
        /\ \A q \in DOMAIN PriorFiles :
              /\ q \in DOMAIN files
              /\ files[q] = PriorFiles[q]
        /\ \A i \in 1..(step_pc.i - 1) :
              /\ (test_steps[i].stdout # "") => test_steps[i].stdout \in DOMAIN files
              /\ (test_steps[i].stderr # "") => test_steps[i].stderr \in DOMAIN files

C32_Witness ==
    /\ StepFailed
    /\ At("returned")
    /\ ~case_result[1].score.ok
    /\ step_pc.i = 2
    /\ test_steps[1].stdout = "out.txt"
    /\ test_steps[1].stderr = "err.txt"
    /\ test_steps[2].stdout = "log.txt"
    /\ ~test_steps[2].exit_ok
    /\ DOMAIN files = {"out_0000.txt", "out.txt", "err.txt", "log.txt"}
    /\ files["out.txt"] = test_steps[1].out

----------------------------------------------------------------------------
(* printer.rs: ConsolePrinter, driven as test_console_printer drives it: new,  *)
(* print_case on each result of a sequence, then print_summary.  A line of the *)
(* writer is kept as what it shows, not as its characters.                     *)

MaxConsoleCases == 3

ConsoleLine(kind, progress, total, seed, text) ==
    [kind |-> kind, progress |-> progress, total |-> total, seed |-> seed, text |-> text]

\* print_header: the three rows of the header
print_header ==
    << ConsoleLine("header", 0, 0, 0, "Progress"),
       ConsoleLine("header", 0, 0, 0, "Score"),
       ConsoleLine("header", 0, 0, 0, "-") >>

\* print_case: the record "| case k / N | seed | .. |" of a result, on the
\* counters already incremented
ConsoleRecord(p, result) ==
    ConsoleLine("record", p.completed_count, p.testcase_count, result.test_case.seed,
                IF result.score.ok THEN "" ELSE "yellow")

\* print_case: what it writes for a result
ConsoleCaseLines(p, result) ==
    (IF HeaderDue(p) THEN print_header ELSE <<>>)
    \o << ConsoleRecord(p, result) >>
    \o (IF result.score.ok THEN <<>>
        ELSE << ConsoleLine("error", 0, 0, 0, result.score.e) >>)

\* print_summary: the five rows of the summary
ConsoleSummaryLines(st) ==
    << ConsoleLine("summary", 0, 0, 0, "Average Score"),
       ConsoleLine("summary", 0, 0, 0, "Average Score (log10)"),
       ConsoleLine("summary", 0, 0, 0, "Average Relative Score"),
       ConsoleLine("summary", AcCount(st), Len(st.results), 0, "Accepted"),
       ConsoleLine("summary", MaxExecutionTime(st.results), 0, 0, "Max Execution Time") >>

InitConsole ==
    /\ EngineIdle
    /\ test_cases = <<>>
    /\ RunIdle
    /\ SingleIdle
    /\ call \in { c \in [ fn : {"console_printer"}, testcase_count : 1..MaxConsoleCases,
                          results : SeqsUpTo(JsonResults, MaxConsoleCases) ] :
                     Len(c.results) <= c.testcase_count }
    /\ ret = <<>>
    /\ writer = <<>>
    /\ GitIdle

\* ConsolePrinter::new(testcase_count)
ConsolePrinterNew ==
    /\ call.fn = "console_printer"
    /\ ret = <<>>
    /\ printer.testcase_count = 0
    /\ AssertNew(call.testcase_count)
    /\ printer' = PrinterNew(call.testcase_count)
    /\ UNCHANGED << json_frame, ret, writer >>

\* printer.print_case(&mut buf, result) on the next result of the sequence
ConsolePrintCase ==
    /\ call.fn = "console_printer"
    /\ printer.testcase_count > 0
    /\ Len(ret) < Len(call.results)
    /\ LET p == gen_record(printer, call.results[Len(ret) + 1])
       IN  /\ ~RecordPanics(p)
           /\ printer' = p
           /\ writer' = writer \o ConsoleCaseLines(p, call.results[Len(ret) + 1])
    /\ ret' = Append(ret, "Ok")
    /\ UNCHANGED json_frame

\* printer.print_summary(&mut buf, &TestStats::new(test_results, ..))
ConsolePrintSummary ==
    /\ call.fn = "console_printer"
    /\ printer.testcase_count > 0
    /\ Len(ret) = Len(call.results)
    /\ call.results # <<>>
    /\ writer' = writer \o ConsoleSummaryLines(TestStatsNew(call.results))
    /\ ret' = Append(ret, "Ok")
    /\ UNCHANGED << json_frame, printer >>

NextConsole == ConsolePrinterNew \/ ConsolePrintCase \/ ConsolePrintSummary

SpecConsole == InitConsole /\ [][NextConsole]_vars

HeaderRows == { i \in 1..Len(writer) : writer[i].kind = "header" }
RecordRows == SelectSeq(writer, LAMBDA l : l.kind = "record")

\* C33: the console sink writes its header once, when the first case completes
\* and right before that case's record, and never again; it writes one record
\* per print_case call, and the k-th record shows progress k / N and the seed of
\* the k-th result handed over, so that after N calls k has run from 1 to N.
C33_ConsoleHeaderOnce ==
    call.fn = "console_printer" =>
        /\ (OnCaseCalls = 0) => writer = <<>>
        /\ (OnCaseCalls > 0) =>
              /\ HeaderRows = 1..Len(print_header)
              /\ writer[Len(print_header) + 1].kind = "record"
              /\ writer[Len(print_header) + 1].progress = 1
        /\ Len(RecordRows) = OnCaseCalls
        /\ \A k \in 1..Len(RecordRows) :
              /\ RecordRows[k].progress = k
              /\ RecordRows[k].total = call.testcase_count
              /\ RecordRows[k].seed = call.results[k].test_case.seed

C33_Witness ==
    /\ call.fn = "console_printer"
    /\ call.testcase_count = 3
    /\ Len(ret) = 4
    /\ call.results[1].test_case.seed = 2
    /\ call.results[2].test_case.seed = 0
    /\ call.results[3].test_case.seed = 1
    /\ ~call.results[1].score.ok
    /\ Len(RecordRows) = 3
    /\ RecordRows[3].progress = 3
    /\ writer[Len(writer)].kind = "summary"

----------------------------------------------------------------------------
(* The reported maximum execution time *)

Reported == summary_log # <<>>
StepError(r) == ~r.score.ok /\ r.score.e \notin {"Wrong Answer", "Score not found"}
IsLargestTime(m, rs) ==
    /\ \A i \in 1..Len(rs) : rs[i].execution_time <= m
    /\ \E i \in 1..Len(rs) : rs[i].execution_time = m

\* C34 as claimed: the reported max_execution_time is the largest execution_time
\* of the results of the run, Failures included, and every Failure has
\* execution_time 0.
C34_MaxTimeAndFailuresZero ==
    Reported =>
        /\ IsLargestTime(summary_log[1].max_time, Report.results)
        /\ \A i \in 1..Len(Report.results) :
              ~Report.results[i].score.ok => Report.results[i].execution_time = 0

\* C34, amended: the reported max_execution_time is the largest execution_time
\* of the results of the run, Failures included; a Failure has execution_time 0
\* when one of its steps failed, and the time its steps took when they all ran
\* and no positive score was found (Wrong Answer, Score not found).
C34_MaxTimeOverAllResults ==
    Reported =>
        /\ IsLargestTime(summary_log[1].max_time, Report.results)
        /\ \A i \in 1..Len(Report.results) :
              LET r == Report.results[i]
              IN  /\ StepError(r) => r.execution_time = 0
                  /\ (~r.score.ok /\ ~StepError(r)) =>
                        r.execution_time = solver[r.test_case.seed].time

C34_Witness ==
    /\ Reported
    /\ Len(Report.results) = 2
    /\ \A i \in 1..2 : ~Report.results[i].score.ok
    /\ Report.results[1].score.e = "Wrong Answer"
    /\ Report.results[1].execution_time > 0
    /\ summary_log[1].max_time = Report.results[1].execution_time

----------------------------------------------------------------------------
(* runner.rs: one run after another on the same out_dir.  A run is taken as  *)
(* one step, from load_best_scores to the result files: its results are      *)
(* those of its cases in seed order, which is what the report holds whatever *)
(* the threads did.  best_scores is the store as the next run loads it.      *)

MaxRuns == 2

\* The HashMap<u64, NonZeroU64> of run, and best_scores.get(&seed).copied()
AsMap(bs) == [s \in { q \in DOMAIN bs : bs[q] # None } |-> bs[s]]
Get(m, seed) == IF seed \in DOMAIN m THEN m[seed] ELSE None

\* What the steps of a case print in these runs
EchoScore300 == Echo(300 * Milli, 1)
RunsOutcomes == { EchoScore1, EchoScore100, EchoScore300, RunFalse }

\* The seed ranges of these runs: one seed, two seeds with stored scores, a range
\* that overlaps it, and the seed that has no stored score
RunsRanges == { << 0, 1 >>, << 0, 2 >>, << 1, 3 >>, << 3, 4 >> }
RunsSettings ==
    { st \in [ start_seed : AllSeeds, end_seed : 1 .. (MaxCases + 1), threads : {1},
               objective : Objectives, score_regex : {"named"} ] :
          << st.start_seed, st.end_seed >> \in RunsRanges }

InitRuns ==
    /\ pc = "finished"
    /\ settings = [start_seed |-> 0, end_seed |-> 0, threads |-> 1,
                   objective |-> "Max", score_regex |-> "named"]
    /\ args = PlainArgs(FALSE)
    /\ best_scores = StoredBest
    /\ solver = <<>>
    /\ cpus = MaxThreads
    /\ EngineAtStart
    /\ compile_steps = <<>>
    /\ compile_log = <<>>
    /\ out_dir = [NoFiles EXCEPT !.best_scores = << StoredBest >>]
    /\ SingleIdle
    /\ UnitIdle

\* runner::run with valid settings, no compile step, a sink that does not fail
\* and neither --freeze-best-scores nor --no-result-file
RunAndSave ==
    /\ pc = "finished"
    /\ out_dir.summary_log < MaxRuns
    /\ \E st \in RunsSettings :
       \E sv \in [st.start_seed .. (st.end_seed - 1) -> RunsOutcomes] :
       \E rs \in { [i \in 1..(st.end_seed - st.start_seed) |->
                       SingleRun(TestCaseNew(st.start_seed + i - 1,
                                             best_scores[st.start_seed + i - 1],
                                             st.objective),
                                 sv[st.start_seed + i - 1])] } :
       \E updated \in { UpdatedBest(best_scores, rs) } :
       \E saved \in { save_best_scores(AsMap(updated)) } :
       \E loaded \in load_best_scores(saved) :
          /\ loaded.ok
          /\ settings' = st
          /\ solver' = sv
          /\ results' = rs
          /\ stats' = << TestStatsNew(rs) >>
          /\ out_dir' = [out_dir EXCEPT !.best_scores = << updated >>,
                                        !.summary_log = @ + 1, !.json_log = @ + 1]
          /\ best_scores' = [s \in AllSeeds |-> Get(loaded.v, s)]
    /\ UNCHANGED << pc, args, cpus, test_cases, submitted, queue, running, tx_count,
                    channel, cur, printer, history, compile_steps, compile_log,
                    single_vars, unit_vars >>

NextRuns == RunAndSave

SpecRuns == InitRuns /\ [][NextRuns]_vars

\* The better of the stored value and a new score
Better(old, new, objective) ==
    IF old = None THEN new
    ELSE IF objective = "Max" THEN Max2(old, new)
    ELSE IF old <= new THEN old ELSE new

\* C35: in every run that saves the best scores, the stored best score of a seed
\* does not get worse with respect to the objective of the run: for a seed of
\* the run whose result is a Success it becomes the better of the stored value
\* and that score (that score, if nothing was stored); for a seed whose result
\* is a Failure and for every seed outside the seed range it stays what it was.
C35_BestScoreNeverWorse ==
    [][ \A s \in AllSeeds :
          LET ran == { i \in 1..Len(results') : results'[i].test_case.seed = s }
          IN  /\ (best_scores[s] # None) =>
                    /\ best_scores'[s] # None
                    /\ AtLeastAsGood(best_scores'[s], best_scores[s], settings'.objective)
              /\ \A i \in ran :
                    best_scores'[s] =
                        IF results'[i].score.ok
                        THEN Better(best_scores[s], results'[i].score.v, settings'.objective)
                        ELSE best_scores[s]
              /\ (s \notin settings'.start_seed .. (settings'.end_seed - 1)) =>
                    /\ ran = {}
                    /\ best_scores'[s] = best_scores[s]
              /\ (s \in settings'.start_seed .. (settings'.end_seed - 1)) => ran # {}
      ]_vars

C35_Witness ==
    /\ out_dir.summary_log = 2
    /\ settings.objective = "Min"
    /\ settings.start_seed = 0
    /\ Len(results) = 2
    /\ results[1].score.ok
    /\ results[1].score.v = 300
    /\ best_scores[0] = 1
    /\ results[2].score.ok
    /\ results[2].score.v = 100
    /\ results[2].test_case.reference_score = 200
    /\ best_scores[1] = 100
    /\ best_scores[2] = StoredBest[2]

----------------------------------------------------------------------------
(* git.rs: commit.  The repository is the number of commits on the current   *)
(* branch (HEAD; 0 on a branch without commits), whether the index differs    *)
(* from HEAD, whether the work tree differs from the index, and the tags.     *)
(* A git command can fail for a reason of its own (no identity configured, a  *)
(* hook, a lock file); git tag fails when the tag exists, and git reset HEAD^ *)
(* when HEAD has no parent.                                                   *)

MaxCommits == 2

GitCommands == { "add", "diff", "commit", "tag", "reset" }
RandomNames == { "aB3dE6gH" }
TagNames == { "", "v1" }

\* generate_tag_name: pahcer/<the name given, or eight random characters>
generate_tag_name(tag_name, random) ==
    << "pahcer", IF tag_name = "" THEN random ELSE tag_name >>

Repos ==
    [ head : 0..MaxCommits, staged : BOOLEAN, dirty : BOOLEAN,
      tags : { {}, { << "pahcer", "v1" >> }, { << "pahcer", "aB3dE6gH" >> } } ]

InitGit ==
    /\ EngineIdle
    /\ test_cases = <<>>
    /\ RunIdle
    /\ SingleIdle
    /\ call \in [ fn : {"commit"}, tag_name : TagNames, random : RandomNames,
                  fails : GitCommands \cup {"none"}, repo : Repos ]
    /\ ret = <<>>
    /\ writer = <<>>
    /\ git_pc = [at |-> "git_add_all", has_diff |-> FALSE]
    /\ repo = call.repo

git_frame == << engine, run_vars, single_vars, call, writer >>

GitAt(at) == call.fn = "commit" /\ git_pc.at = at
\* The ? operator on a git command that failed: commit returns Err
GitErr == git_pc' = [git_pc EXCEPT !.at = "err"] /\ ret' = << Err("git") >>

\* git add --all
git_add_all ==
    /\ GitAt("git_add_all")
    /\ IF call.fails = "add"
       THEN GitErr /\ UNCHANGED repo
       ELSE /\ repo' = [repo EXCEPT !.staged = repo.staged \/ repo.dirty, !.dirty = FALSE]
            /\ git_pc' = [git_pc EXCEPT !.at = "git_diff"]
            /\ UNCHANGED ret
    /\ UNCHANGED git_frame

\* let has_diff = git_diff()?: git diff --cached --name-only prints something
git_diff ==
    /\ GitAt("git_diff")
    /\ IF call.fails = "diff"
       THEN GitErr
       ELSE /\ git_pc' = [at |-> IF repo.staged THEN "git_commit" ELSE "git_tag",
                          has_diff |-> repo.staged]
            /\ UNCHANGED ret
    /\ UNCHANGED << git_frame, repo >>

\* if has_diff { git_commit()? }
git_commit ==
    /\ GitAt("git_commit")
    /\ IF call.fails = "commit"
       THEN GitErr /\ UNCHANGED repo
       ELSE /\ repo' = [repo EXCEPT !.head = @ + 1, !.staged = FALSE]
            /\ git_pc' = [git_pc EXCEPT !.at = "git_tag"]
            /\ UNCHANGED ret
    /\ UNCHANGED git_frame

\* git_tag(&tag_name)?: git tag -a <name>, and on its failure commit returns at
\* once; then Ok(tag_name) when there is nothing to reset
git_tag ==
    /\ GitAt("git_tag")
    /\ LET name == generate_tag_name(call.tag_name, call.random)
       IN  IF call.fails = "tag" \/ name \in repo.tags
           THEN GitErr /\ UNCHANGED repo
           ELSE /\ repo' = [repo EXCEPT !.tags = @ \cup {name}]
                /\ IF git_pc.has_diff
                   THEN git_pc' = [git_pc EXCEPT !.at = "git_reset"] /\ UNCHANGED ret
                   ELSE git_pc' = [git_pc EXCEPT !.at = "ok"] /\ ret' = << Ok(name) >>
    /\ UNCHANGED git_frame

\* if has_diff { git_reset()? }: git reset --mixed HEAD^, then Ok(tag_name)
git_reset ==
    /\ GitAt("git_reset")
    /\ IF call.fails = "reset" \/ repo.head <= 1
       THEN GitErr /\ UNCHANGED repo
       ELSE /\ repo' = [repo EXCEPT !.head = @ - 1, !.staged = FALSE, !.dirty = TRUE]
            /\ git_pc' = [git_pc EXCEPT !.at = "ok"]
            /\ ret' = << Ok(generate_tag_name(call.tag_name, call.random)) >>
    /\ UNCHANGED git_frame

NextGit == git_add_all \/ git_diff \/ git_commit \/ git_tag \/ git_reset

SpecGit == InitGit /\ [][NextGit]_vars

CommitReturned == call.fn = "commit" /\ git_pc.at \in {"ok", "err"}

\* C36: whenever git::commit has returned, with Ok or with Err, HEAD is the
\* commit it was before the call: a temporary commit that was made has been
\* undone, also when the tag could not be created.
C36_HeadRestoredOnEveryReturn ==
    CommitReturned => repo.head = call.repo.head

\* What does hold: a commit that returns Ok leaves HEAD where it was, with the
\* tag on the commit that held the staged changes.
OkCommitRestoresHead ==
    (call.fn = "commit" /\ git_pc.at = "ok") =>
        /\ repo.head = call.repo.head
        /\ ret[1].ok
        /\ ret[1].v \in repo.tags

----------------------------------------------------------------------------
(* runner.rs: what a rejected run has done *)

Rejected == pc = "rejected"
CompileStepsRun == { k \in 1..Len(compile_log) : compile_log[k].ran }

\* C37: a run that is rejected for an empty seed range or for a score regex that
\* does not compile has had no effect: no compile step has been run, git::commit
\* has not been called, and neither the best-score file nor a result file has
\* been written.
C37_RejectedWithoutSideEffects ==
    Rejected =>
        /\ CompileStepsRun = {}
        /\ GitIdle
        /\ out_dir = NoFiles

----------------------------------------------------------------------------
(* The assertions of the console sink in a run *)

PrinterBuilt == pc \notin {"compile", "compile_failed", "validate", "rejected", "submit"}

\* C38: in a run started through runner::run no assertion of the console sink
\* fails: the sink is built with testcase_count > 0 (the number of cases of a
\* seed range that is not empty), after every on_case call completed_count is
\* the number of calls made and at most testcase_count, and the header is asked
\* for only by the call that finds completed_count = 1.
C38_PrinterAssertionsHold ==
    /\ pc # "panic"
    /\ PrinterBuilt =>
          /\ AssertNew(printer.testcase_count)
          /\ printer.testcase_count = N
          /\ AssertCount(printer)
          /\ printer.completed_count = on_case_done
          /\ HeaderDue(printer) => AssertHeader(printer)
    /\ (pc = "on_case") => ~RecordPanics(gen_record(printer, cur[1]))

C38_Witness ==
    /\ pc = "done"
    /\ printer.testcase_count = MaxCases
    /\ printer.completed_count = MaxCases
    /\ on_case_done = MaxCases

----------------------------------------------------------------------------
(* The running sum of the console sink and the sum of the report *)

\* C39: once the report is built, that is after the last on_case call, the
\* running score_sum of the sink, accumulated in the order the cases completed
\* with a Failure counted as 0, is the score_sum of the report, computed over
\* the results sorted by seed; before that it is the sum over the results
\* received so far.
C39_RunningSumEqualsReportSum ==
    /\ (stats # <<>>) =>
          /\ on_case_done = N
          /\ printer.score_sum = Report.score_sum
    /\ (pc \in {"collect", "sort", "stats"}) => printer.score_sum = ScoreSum(results)

C39_Witness ==
    /\ stats # <<>>
    /\ N = 3
    /\ on_case_log = << 2, 0, 1 >>
    /\ ~Report.results[2].score.ok
    /\ Report.results[1].score.ok
    /\ Report.results[3].score.ok
    /\ printer.score_sum = 200
    /\ Report.score_sum = 200

====
